---- MODULE Spec2Model ----
(***************************************************************************)
(* A model of the reverse-mode differentiation engine: the Tensor          *)
(* arithmetic used for gradient accumulation (compyute/tensors.py), the    *)
(* Sequential and Parallel containers (compyute/nn/containers.py) and the  *)
(* Linear and Convolution layers (walnut/nn/layers.py).                    *)
(*                                                                         *)
(* Arrays are nested sequences of integers (1-based in the model, 0-based  *)
(* in the source): a vector is a sequence, a matrix a sequence of rows, a  *)
(* 4-d array x[b][c][i][j] a sequence of batches of channels of rows.      *)
(* An optional value (Python's None) is a sequence of length 0 or 1.       *)
(***************************************************************************)
EXTENDS Integers, Sequences, FiniteSets, TLC

VARIABLES
    t,       \* a parameter Tensor: [data, grad], grad optional
    seqc,    \* the SequentialContainer object
    parc,    \* the ParallelContainer object
    log,     \* the child calls made by the last container call, in order
    lin,     \* the walnut Linear layer with its neighbours
    conv,    \* the walnut Convolution layer with its neighbours
    drop,    \* the walnut Dropout layer
    pool,    \* the walnut MaxPooling layer
    soft,    \* the walnut Softmax module
    chain,   \* a compiled chain of walnut layers
    last,    \* the last call made on the object under study: [op, ...]
    err,     \* the exception the last call raised, "" when it returned
    steps    \* the number of calls made since the last reset (bounded)

vars == <<t, seqc, parc, log, lin, conv, drop, pool, soft, chain, last, err, steps>>

(***************************************************************************)
(* Bounds of the model.                                                    *)
(***************************************************************************)
MaxLen == 2          \* length of the vectors of the accumulation model
MaxVal == 2          \* magnitude of the entries of an input array
MaxSeed == 2         \* number of dense input patterns per shape
MaxAcc == 3          \* accumulations between two gradient resets
MaxChildren == 3     \* child modules of a container
MaxWidth == 2        \* output channels of a child module
MaxBatch == 2        \* batch size N of an input (N, D)
InDim == 2           \* input channels D of a container's input
MaxK == 2            \* kernel extent of a Convolution layer, per axis
MaxH == 3            \* spatial extent of a Convolution layer's input
MaxChan == 2         \* channels of a Convolution layer
RateDen == 2         \* drop rates are the fractions k / RateDen
MaxClass == 3        \* classes (channels) of a Softmax input
SoftDen == 3         \* softmax outputs are the fractions k / SoftDen
MaxOps == 3          \* calls made on the tensors of the heap model
MaxMag == 40         \* magnitude of the entries an arithmetic operator is applied to

None == <<>>
Some(v) == <<v>>

Vals == (0 - MaxVal)..MaxVal

Idle == [op |-> "idle"]

\* an array built entry by entry, as a stored sequence (TLC would otherwise
\* compute an entry anew at every use)
Arr(f) == f \o <<>>

(***************************************************************************)
(* Input arrays.  Entry k (row-major, from 1) of the dense pattern s, and  *)
(* the one-hot arrays v * e_k: every bilinear map is decided by its values *)
(* on the one-hot arrays, the dense patterns exercise the sums.            *)
(***************************************************************************)
Gen(s, k) == ((k * (k + s) + 2 * s + 1) % (2 * MaxVal + 1)) - MaxVal

GenVec(s, n) == Arr([i \in 1..n |-> Gen(s, i)])
UnitVec(k, v, n) == Arr([i \in 1..n |-> IF i = k THEN v ELSE 0])
InputVectors(n) ==
    {GenVec(s, n) : s \in 1..MaxSeed}
        \cup {UnitVec(k, v, n) : k \in 1..n, v \in Vals}

GenMat(s, n, m) ==
    Arr([i \in 1..n |-> Arr([j \in 1..m |-> Gen(s, (i - 1) * m + j)])])

(***************************************************************************)
(* Array arithmetic of the backend (numpy), on nested sequences.           *)
(***************************************************************************)
RECURSIVE SumSeq(_)
SumSeq(s) == IF s = <<>> THEN 0 ELSE s[1] + SumSeq(Tail(s))

\* data + other for two vectors of one shape
VecAdd(a, b) == Arr([i \in 1..Len(a) |-> a[i] + b[i]])

\* data + s for a scalar s (numpy broadcasts the scalar)
VecAddScalar(a, s) == Arr([i \in 1..Len(a) |-> a[i] + s])

NRows(a) == Len(a)
NCols(a) == IF Len(a) = 0 THEN 0 ELSE Len(a[1])

\* a @ b
MatMul(a, b) ==
    Arr([i \in 1..NRows(a) |->
        Arr([j \in 1..NCols(b) |-> SumSeq([k \in 1..NCols(a) |-> a[i][k] * b[k][j]])])])

\* a.T
Transpose(a) == Arr([j \in 1..NCols(a) |-> Arr([i \in 1..NRows(a) |-> a[i][j]])])

\* a + b for two matrices of one shape
MatAdd(a, b) ==
    Arr([i \in 1..NRows(a) |-> Arr([j \in 1..NCols(a) |-> a[i][j] + b[i][j]])])

\* a + s for a scalar s
MatAddScalar(a, s) ==
    Arr([i \in 1..NRows(a) |-> Arr([j \in 1..NCols(a) |-> a[i][j] + s])])

\* a + v for a vector v, broadcast over the rows of a
MatAddRow(a, v) ==
    Arr([i \in 1..NRows(a) |-> Arr([j \in 1..NCols(a) |-> a[i][j] + v[j]])])

\* np.sum(a, axis=0)
SumAxis0(a) == Arr([j \in 1..NCols(a) |-> SumSeq([i \in 1..NRows(a) |-> a[i][j]])])

(***************************************************************************)
(* Tensor.__add__, __radd__, __iadd__ (compyute/tensors.py).  A Tensor is  *)
(* [data |-> vector]; the results are the new Tensor, or the exception.    *)
(***************************************************************************)
\* "other or 0.0": None and 0 are falsy
OrZero(other) == IF other = None \/ other = Some(0) THEN 0 ELSE other[1]

Tensor__add__(self, other) == [data |-> VecAdd(self.data, other.data)]

\* a __radd__ that lacks the "or 0.0": the sum with None is a TypeError
Tensor__radd__NoDefault(self, other) ==
    IF other = None THEN [raised |-> "TypeError", data |-> <<>>]
    ELSE [raised |-> "", data |-> VecAddScalar(self.data, other[1])]

Tensor__radd__(self, other) ==
    [raised |-> "", data |-> VecAddScalar(self.data, OrZero(other))]

Tensor__iadd__(self, other) == [data |-> VecAdd(self.data, other.data)]

(***************************************************************************)
(* The accumulation model: t.grad is None or a Tensor, and gradients are   *)
(* accumulated with "t.grad += g" or "t.grad = t.grad + g".  Python tries  *)
(* the left operand's method first; None has none, so the right operand's  *)
(* __radd__ is called with other = None.                                   *)
(***************************************************************************)
AccInit ==
    /\ t \in {[data |-> GenVec(1, n), grad |-> None] : n \in 1..MaxLen}
    /\ last = [op |-> "init"]
    /\ err = ""
    /\ steps = 0
    /\ seqc = Idle /\ parc = Idle /\ log = <<>> /\ lin = Idle /\ conv = Idle /\ drop = Idle /\ pool = Idle /\ soft = Idle /\ chain = Idle

\* t.grad += g
GradIAdd(g) ==
    /\ UNCHANGED <<seqc, parc, log, lin, conv, drop, pool, soft, chain>>
    /\ steps < MaxAcc
    /\ steps' = steps + 1
    /\ last' = [op |-> "iadd", g |-> g, prev |-> t.grad]
    /\ IF t.grad = None
       THEN LET r == Tensor__radd__(g, None)
            IN  /\ err' = r.raised
                /\ t' = IF r.raised = "" THEN [t EXCEPT !.grad = Some([data |-> r.data])]
                        ELSE t
       ELSE /\ err' = ""
            /\ t' = [t EXCEPT !.grad = Some(Tensor__iadd__(t.grad[1], g))]

\* t.grad = t.grad + g
GradAdd(g) ==
    /\ UNCHANGED <<seqc, parc, log, lin, conv, drop, pool, soft, chain>>
    /\ steps < MaxAcc
    /\ steps' = steps + 1
    /\ last' = [op |-> "add", g |-> g, prev |-> t.grad]
    /\ IF t.grad = None
       THEN LET r == Tensor__radd__(g, None)
            IN  /\ err' = r.raised
                /\ t' = IF r.raised = "" THEN [t EXCEPT !.grad = Some([data |-> r.data])]
                        ELSE t
       ELSE /\ err' = ""
            /\ t' = [t EXCEPT !.grad = Some(Tensor__add__(t.grad[1], g))]

\* t.grad = None (the class default, restored between optimisation steps)
GradReset ==
    /\ UNCHANGED <<seqc, parc, log, lin, conv, drop, pool, soft, chain>>
    /\ t.grad # None
    /\ last' = [op |-> "reset", g |-> [data |-> <<>>], prev |-> t.grad]
    /\ err' = ""
    /\ t' = [t EXCEPT !.grad = None]
    /\ steps' = 0

AccNext ==
    \/ \E g \in InputVectors(Len(t.data)) : GradIAdd([data |-> g])
    \/ \E g \in InputVectors(Len(t.data)) : GradAdd([data |-> g])
    \/ GradReset

SpecAcc == AccInit /\ [][AccNext]_vars

\* C5: accumulating g into an absent gradient gives g elementwise and raises
\* nothing; accumulating into a present gradient e gives e + g elementwise.
C5_AccumulateAbsentIsZero ==
    last.op \in {"iadd", "add"} =>
        /\ err = ""
        /\ t.grad # None
        /\ Len(t.grad[1].data) = Len(last.g.data)
        /\ \A i \in 1..Len(last.g.data) :
              t.grad[1].data[i] =
                  (IF last.prev = None THEN 0 ELSE last.prev[1].data[i]) + last.g.data[i]

\* the gradient was absent, g was accumulated, and then a second one
C5_Witness ==
    /\ last.op \in {"iadd", "add"}
    /\ last.prev # None
    /\ steps = 2
    /\ \E i \in 1..Len(last.g.data) : last.g.data[i] # 0 /\ last.prev[1].data[i] # 0

(***************************************************************************)
(* The affine child modules of a container.  Their arithmetic is that of   *)
(* Linear.forward and Linear.backward (walnut/nn/layers.py); the module    *)
(* protocol (a call caches the input, backward takes the output gradient   *)
(* and returns the input gradient) is section 4.2 of the specification.    *)
(* A matrix product of mismatched shapes raises ValueError in the backend. *)
(***************************************************************************)
\* y = x @ w + b
LinearOutput(x, w, b, use_bias) ==
    IF use_bias THEN MatAddRow(MatMul(x, w), b) ELSE MatAddScalar(MatMul(x, w), 0)

\* dx = dy @ w.T
LinearInputGrad(dy, w) == MatMul(dy, Transpose(w))

\* the weight gradient with the factors swapped
LinearWeightGradSwapped(x, dy) == MatMul(Transpose(dy), x)

\* dw = x.T @ dy
LinearWeightGrad(x, dy) == MatMul(Transpose(x), dy)

\* db = np.sum(dy, axis=0)
LinearBiasGrad(dy) == SumAxis0(dy)

\* module(x): the child caches x and returns its output
ModuleCall(m, x) ==
    IF NCols(x) # NRows(m.w) THEN [m |-> m, y |-> <<>>, raised |-> "ValueError"]
    ELSE [m |-> [m EXCEPT !.x = Some(x)], y |-> LinearOutput(x, m.w, m.b, TRUE),
          raised |-> ""]

\* module.backward(dy): the child records dy and returns dx
ModuleBackward(m, dy) ==
    IF NCols(dy) # NCols(m.w) THEN [m |-> m, dx |-> <<>>, raised |-> "ValueError"]
    ELSE [m |-> [m EXCEPT !.dy = Some(dy)], dx |-> LinearInputGrad(dy, m.w),
          raised |-> ""]

\* child i of a container: in_dim inputs, width outputs
Child(i, in_dim, width) ==
    [w |-> GenMat(i, in_dim, width), b |-> GenVec(i + 1, width), x |-> None, dy |-> None]

\* the output widths of n children, variant v: all MaxWidth for v = 0, and
\* 1 + (i + v) mod MaxWidth otherwise
WidthsOf(n, v) ==
    Arr([i \in 1..n |-> IF v = 0 THEN MaxWidth ELSE 1 + ((i + v) % MaxWidth)])
Widths == {WidthsOf(n, v) : n \in 1..MaxChildren, v \in 0..MaxWidth}

\* the dense input patterns of shape (n, m)
DenseMatrices(n, m) == {GenMat(s, n, m) : s \in 1..MaxSeed}

(***************************************************************************)
(* SequentialContainer (compyute/nn/containers.py).                        *)
(***************************************************************************)
\* for module in self.sub_modules
ForwardOrder(n) == Arr([k \in 1..n |-> k])

\* a backward loop that walks the children in list order
ReversedNot(n) == Arr([k \in 1..n |-> k])

\* for module in reversed(self.sub_modules)
Reversed(n) == Arr([k \in 1..n |-> n + 1 - k])

\* the forward loop: x = module(x) for the children in `order`, from position k
RECURSIVE CallLoop(_, _, _, _, _)
CallLoop(mods, order, k, x, lg) ==
    IF k > Len(order) THEN [mods |-> mods, out |-> x, log |-> lg, raised |-> ""]
    ELSE LET i == order[k]
             r == ModuleCall(mods[i], x)
         IN  IF r.raised # ""
             THEN [mods |-> mods, out |-> <<>>, log |-> lg, raised |-> r.raised]
             ELSE CallLoop([mods EXCEPT ![i] = r.m], order, k + 1, r.y,
                           Append(lg, [op |-> "call", i |-> i, arg |-> x, ret |-> r.y]))

\* the backward loop: dy = module.backward(dy) for the children in `order`
RECURSIVE BackwardLoop(_, _, _, _, _)
BackwardLoop(mods, order, k, dy, lg) ==
    IF k > Len(order) THEN [mods |-> mods, out |-> dy, log |-> lg, raised |-> ""]
    ELSE LET i == order[k]
             r == ModuleBackward(mods[i], dy)
         IN  IF r.raised # ""
             THEN [mods |-> mods, out |-> <<>>, log |-> lg, raised |-> r.raised]
             ELSE BackwardLoop([mods EXCEPT ![i] = r.m], order, k + 1, r.dx,
                               Append(lg, [op |-> "backward", i |-> i, arg |-> dy,
                                           ret |-> r.dx]))

SeqInit ==
    /\ \E ws \in Widths :
         seqc = [sub_modules |->
                    Arr([i \in 1..Len(ws) |->
                            Child(i, IF i = 1 THEN InDim ELSE ws[i - 1], ws[i])]),
                 training |-> TRUE,
                 backward |-> None,
                 y |-> None,
                 dy |-> None]
    /\ log = <<>>
    /\ last = [op |-> "init"]
    /\ err = ""
    /\ steps = 0
    /\ t = Idle /\ parc = Idle /\ lin = Idle /\ conv = Idle /\ drop = Idle /\ pool = Idle /\ soft = Idle /\ chain = Idle

\* SequentialContainer.__call__(x)
SeqCall(x) ==
    LET r == CallLoop(seqc.sub_modules, ForwardOrder(Len(seqc.sub_modules)), 1, x, <<>>)
    IN  /\ seqc' = IF r.raised # "" THEN [seqc EXCEPT !.sub_modules = r.mods]
                   ELSE [seqc EXCEPT
                           !.sub_modules = r.mods,
                           !.backward = IF seqc.training THEN Some("closure") ELSE @,
                           !.y = Some(r.out)]
        /\ log' = r.log
        /\ last' = [op |-> "call", arg |-> x, ret |-> r.out]
        /\ err' = r.raised
        /\ UNCHANGED <<t, parc, lin, conv, steps, drop, pool, soft, chain>>

\* the closure installed by __call__: backward(dy)
SeqBackward(dy) ==
    /\ seqc.backward # None
    /\ LET r == BackwardLoop(seqc.sub_modules, Reversed(Len(seqc.sub_modules)), 1, dy, <<>>)
       IN  /\ seqc' = [seqc EXCEPT !.sub_modules = r.mods, !.dy = Some(dy)]
           /\ log' = r.log
           /\ last' = [op |-> "backward", arg |-> dy, ret |-> r.out]
           /\ err' = r.raised
    /\ UNCHANGED <<t, parc, lin, conv, steps, drop, pool, soft, chain>>

\* the training flag of the Module base class
SeqSetTraining(b) ==
    /\ seqc.training # b
    /\ seqc' = [seqc EXCEPT !.training = b]
    /\ UNCHANGED <<t, parc, log, lin, conv, last, err, steps, drop, pool, soft, chain>>

SeqNext ==
    \/ \E n \in 1..MaxBatch : SeqCall(GenMat(n, n, InDim))
    \/ /\ seqc.y # None
       /\ \E dy \in DenseMatrices(NRows(seqc.y[1]), NCols(seqc.y[1])) : SeqBackward(dy)
    \/ \E b \in BOOLEAN : SeqSetTraining(b)

SpecSeq == SeqInit /\ [][SeqNext]_vars

\* chaining the children's calls by hand: child k on the result of child k - 1
RECURSIVE HandForward(_, _)
HandForward(k, x) ==
    IF k = 0 THEN x ELSE ModuleCall(seqc.sub_modules[k], HandForward(k - 1, x)).y

\* chaining the children's backward calls by hand: child k on the result of child k + 1
RECURSIVE HandBackward(_, _)
HandBackward(k, dy) ==
    IF k > Len(seqc.sub_modules) THEN dy
    ELSE ModuleBackward(seqc.sub_modules[k], HandBackward(k + 1, dy)).dx

\* C1: a SequentialContainer call runs the children in list order, each on the
\* previous child's output; its backward runs them in the reverse order, each on
\* the gradient the later child returned; both results are those of chaining the
\* children by hand.
C1_SequentialOrder ==
    LET n == Len(seqc.sub_modules)
    IN  /\ last.op = "call" =>
              /\ err = ""
              /\ Len(log) = n
              /\ \A k \in 1..n :
                    /\ log[k].op = "call"
                    /\ log[k].i = k
                    /\ log[k].arg = IF k = 1 THEN last.arg ELSE log[k - 1].ret
              /\ last.ret = log[n].ret
              /\ last.ret = HandForward(n, last.arg)
              /\ seqc.y = Some(last.ret)
        /\ last.op = "backward" =>
              /\ err = ""
              /\ Len(log) = n
              /\ \A k \in 1..n :
                    /\ log[k].op = "backward"
                    /\ log[k].i = n + 1 - k
                    /\ log[k].arg = IF k = 1 THEN last.arg ELSE log[k - 1].ret
              /\ last.ret = log[n].ret
              /\ last.ret = HandBackward(1, last.arg)

\* a chain of three children has run backward on a gradient that is not zero
C1_Witness ==
    /\ last.op = "backward"
    /\ Len(seqc.sub_modules) = 3
    /\ Len(log) = 3
    /\ log[1].i = 3 /\ log[3].i = 1
    /\ \E r \in 1..NRows(last.ret) : \E c \in 1..NCols(last.ret) : last.ret[r][c] # 0

(***************************************************************************)
(* concat and split (compyute/tensor_ops/creation_ops.py) on matrices;     *)
(* axis -1 is the last axis.                                               *)
(***************************************************************************)
Axis(a) == IF a < 0 THEN a + 2 ELSE a
Extent(x, a) == IF Axis(a) = 0 THEN NRows(x) ELSE NCols(x)

RECURSIVE Flatten(_)
Flatten(ss) == IF ss = <<>> THEN <<>> ELSE ss[1] \o Flatten(Tail(ss))

\* whether the backend can join the arrays: all other extents agree
CanConcat(ys, a) ==
    \A i \in 1..Len(ys) : Extent(ys[i], 1 - Axis(a)) = Extent(ys[1], 1 - Axis(a))

\* a concatenation that joins the arrays last to first
ConcatReversed(ys, a) ==
    LET zs == Arr([i \in 1..Len(ys) |-> ys[Len(ys) + 1 - i]])
    IN  IF Axis(a) = 0 THEN Flatten(zs)
        ELSE Arr([r \in 1..NRows(zs[1]) |-> Flatten([i \in 1..Len(zs) |-> zs[i][r]])])

\* concatenate([t.data for t in tensors], axis)
Concat(ys, a) ==
    IF Axis(a) = 0 THEN Flatten(ys)
    ELSE Arr([r \in 1..NRows(ys[1]) |-> Flatten([i \in 1..Len(ys) |-> ys[i][r]])])

Min(a, b) == IF a < b THEN a ELSE b

\* x[st:end] along axis a (0-based, end excluded, clamped as Python slices are)
SliceAxis(x, st, end, a) ==
    IF Axis(a) = 0 THEN SubSeq(x, st + 1, Min(end, NRows(x)))
    ELSE Arr([r \in 1..NRows(x) |-> SubSeq(x[r], st + 1, Min(end, NCols(x)))])

\* split(x, splits, axis): the pieces between consecutive split indices
Split(x, splits, a) ==
    LET pts == <<0>> \o splits \o <<Extent(x, a)>>
    IN  Arr([i \in 1..(Len(splits) + 1) |-> SliceAxis(x, pts[i], pts[i + 1], a)])

(***************************************************************************)
(* ParallelContainer (compyute/nn/containers.py).                          *)
(***************************************************************************)
\* m(x): every child gets the container's own input
ChildInput(x, ys) == x

\* ys = [m(x) for m in self.sub_modules], from child k
RECURSIVE CallAll(_, _, _, _, _)
CallAll(mods, k, x, ys, lg) ==
    IF k > Len(mods) THEN [mods |-> mods, ys |-> ys, log |-> lg, raised |-> ""]
    ELSE LET xin == ChildInput(x, ys)
             r == ModuleCall(mods[k], xin)
         IN  IF r.raised # ""
             THEN [mods |-> mods, ys |-> ys, log |-> lg, raised |-> r.raised]
             ELSE CallAll([mods EXCEPT ![k] = r.m], k + 1, x, Append(ys, r.y),
                          Append(lg, [op |-> "call", i |-> k, arg |-> xin, ret |-> r.y]))

\* split indices that are the extents themselves, not their running sums
SplitsNoCumSum(out_lens) == Arr([i \in 1..(Len(out_lens) - 1) |-> out_lens[i]])

\* splits = [sum(out_lens[: i + 1]) for i in range(len(out_lens) - 1)]
Splits(out_lens) ==
    Arr([i \in 1..(Len(out_lens) - 1) |-> SumSeq(SubSeq(out_lens, 1, i))])

SameShape(a, b) == NRows(a) = NRows(b) /\ NCols(a) = NCols(b)

\* a dx that keeps only the latest child's gradient
AccumulateDxOverwrite(dx, g) == g

\* dx += g, from dx = 0.0: the first sum broadcasts the scalar
AccumulateDx(dx, g) == IF dx = None THEN MatAddScalar(g, 0) ELSE MatAdd(dx[1], g)

\* for i, chunk in enumerate(chunks): dx += self.sub_modules[i].backward(chunk.data)
RECURSIVE BackwardAll(_, _, _, _, _)
BackwardAll(mods, chunks, k, dx, lg) ==
    IF k > Len(chunks) THEN [mods |-> mods, dx |-> dx, log |-> lg, raised |-> ""]
    ELSE LET r == ModuleBackward(mods[k], chunks[k])
         IN  IF r.raised # "" \/ (dx # None /\ ~SameShape(dx[1], r.dx))
             THEN [mods |-> mods, dx |-> dx, log |-> lg, raised |-> "ValueError"]
             ELSE BackwardAll([mods EXCEPT ![k] = r.m], chunks, k + 1,
                              Some(AccumulateDx(dx, r.dx)),
                              Append(lg, [op |-> "backward", i |-> k, arg |-> chunks[k],
                                          ret |-> r.dx]))

ConcatAxes == {0 - 1, 0, 1}

ParInit ==
    /\ \E ws \in Widths, a \in ConcatAxes :
         parc = [sub_modules |-> Arr([i \in 1..Len(ws) |-> Child(i, InDim, ws[i])]),
                 concat_axis |-> a,
                 training |-> TRUE,
                 backward |-> None,
                 y |-> None,
                 dy |-> None]
    /\ log = <<>>
    /\ last = [op |-> "init"]
    /\ err = ""
    /\ steps = 0
    /\ t = Idle /\ seqc = Idle /\ lin = Idle /\ conv = Idle /\ drop = Idle /\ pool = Idle /\ soft = Idle /\ chain = Idle

\* ParallelContainer.__call__(x)
ParCall(x) ==
    LET r == CallAll(parc.sub_modules, 1, x, <<>>, <<>>)
    IN  /\ log' = r.log
        /\ IF r.raised = "" /\ CanConcat(r.ys, parc.concat_axis)
           THEN LET y == Concat(r.ys, parc.concat_axis)
                IN  /\ parc' = [parc EXCEPT
                                  !.sub_modules = r.mods,
                                  !.backward = IF parc.training
                                               THEN Some([ys |-> r.ys, x |-> x]) ELSE @,
                                  !.y = Some(y)]
                    /\ last' = [op |-> "call", arg |-> x, ret |-> y]
                    /\ err' = ""
           ELSE /\ parc' = [parc EXCEPT !.sub_modules = r.mods]
                /\ last' = [op |-> "call", arg |-> x, ret |-> <<>>]
                /\ err' = "ValueError"
        /\ UNCHANGED <<t, seqc, lin, conv, steps, drop, pool, soft, chain>>

\* the closure installed by __call__: backward(dy), with the ys it captured
\* (the record also keeps the x of that call, which the claims speak of)
ParBackward(dy) ==
    /\ parc.backward # None
    /\ LET ys == parc.backward[1].ys
           out_lens == Arr([i \in 1..Len(ys) |-> Extent(ys[i], parc.concat_axis)])
           chunks == Split(dy, Splits(out_lens), parc.concat_axis)
           r == BackwardAll(parc.sub_modules, chunks, 1, None, <<>>)
       IN  /\ parc' = [parc EXCEPT !.sub_modules = r.mods, !.dy = Some(dy)]
           /\ log' = r.log
           /\ last' = [op |-> "backward", arg |-> dy,
                       ret |-> IF r.raised = "" THEN r.dx[1] ELSE <<>>]
           /\ err' = r.raised
    /\ UNCHANGED <<t, seqc, lin, conv, steps, drop, pool, soft, chain>>

\* the training flag of the Module base class
ParSetTraining(b) ==
    /\ parc.training # b
    /\ parc' = [parc EXCEPT !.training = b]
    /\ UNCHANGED <<t, seqc, log, lin, conv, last, err, steps, drop, pool, soft, chain>>

ParNext ==
    \/ \E n \in 1..MaxBatch : ParCall(GenMat(n, n, InDim))
    \/ /\ parc.backward # None
       /\ LET y == Concat(parc.backward[1].ys, parc.concat_axis)
          IN  \E dy \in DenseMatrices(NRows(y), NCols(y)) : ParBackward(dy)
    \/ \E b \in BOOLEAN : ParSetTraining(b)

SpecPar == ParInit /\ [][ParNext]_vars

\* the offset of child k's piece along the concatenation axis
Off(exts, k) == SumSeq(SubSeq(exts, 1, k - 1))

\* whether `piece` is the part of `whole` that starts at offset off along axis a
IsPieceAt(piece, whole, off, a) ==
    /\ Extent(piece, 1 - Axis(a)) = Extent(whole, 1 - Axis(a))
    /\ off + Extent(piece, a) <= Extent(whole, a)
    /\ \A r \in 1..NRows(piece) : \A c \in 1..NCols(piece) :
          piece[r][c] = IF Axis(a) = 0 THEN whole[off + r][c] ELSE whole[r][off + c]

\* C2: a ParallelContainer call gives every child the same input x and returns
\* the children's outputs joined in list order along concat_axis, so the extent
\* along that axis is the sum of the children's extents: (N, a + b) for affine
\* children of widths a and b on the last axis.
C2_ParallelConcat ==
    (last.op = "call" /\ err = "") =>
        LET n == Len(parc.sub_modules)
            a == parc.concat_axis
            exts == Arr([k \in 1..Len(log) |-> Extent(log[k].ret, a)])
        IN  /\ Len(log) = n
            /\ \A k \in 1..n :
                  /\ log[k].op = "call"
                  /\ log[k].i = k
                  /\ log[k].arg = last.arg
                  /\ NRows(log[k].ret) = NRows(last.arg)
                  /\ NCols(log[k].ret) = NCols(parc.sub_modules[k].w)
                  /\ IsPieceAt(log[k].ret, last.ret, Off(exts, k), a)
            /\ Extent(last.ret, a) = SumSeq(exts)
            /\ Axis(a) = 1 =>
                  /\ NRows(last.ret) = NRows(last.arg)
                  /\ NCols(last.ret) =
                        SumSeq([k \in 1..n |-> NCols(parc.sub_modules[k].w)])

\* three children of widths that differ were joined along the last axis
C2_Witness ==
    /\ last.op = "call" /\ err = ""
    /\ Len(parc.sub_modules) = 3
    /\ Axis(parc.concat_axis) = 1
    /\ NCols(log[1].ret) # NCols(log[2].ret)
    /\ NCols(last.ret) = NCols(log[1].ret) + NCols(log[2].ret) + NCols(log[3].ret)

\* C3: ParallelContainer backward cuts dy along concat_axis at the running sums
\* of the children's output extents (the last boundary left out): one chunk per
\* child, chunk i with the extent of child i's output and holding the part of dy
\* that child i's output took in the concatenation, passed to child i alone.
C3_ParallelSplit ==
    last.op = "backward" =>
        LET n == Len(parc.sub_modules)
            a == parc.concat_axis
            ys == parc.backward[1].ys
            exts == Arr([k \in 1..Len(ys) |-> Extent(ys[k], a)])
        IN  /\ err = ""
            /\ Len(ys) = n
            /\ Len(log) = n
            /\ \A k \in 1..n :
                  /\ log[k].op = "backward"
                  /\ log[k].i = k
                  /\ Extent(log[k].arg, a) = exts[k]
                  /\ IsPieceAt(log[k].arg, last.arg, Off(exts, k), a)
                  /\ parc.sub_modules[k].dy = Some(log[k].arg)

\* three children of widths that differ each got their chunk of dy
C3_Witness ==
    /\ last.op = "backward" /\ err = ""
    /\ Len(parc.sub_modules) = 3
    /\ Len(log) = 3
    /\ Extent(log[1].arg, parc.concat_axis) # Extent(log[2].arg, parc.concat_axis)
    /\ \E r \in 1..NRows(log[3].arg) : \E c \in 1..NCols(log[3].arg) : log[3].arg[r][c] # 0

\* C4: the gradient ParallelContainer backward returns is the elementwise sum
\* of the input gradients of the children's backward calls, each child once, and
\* has the shape of the input the children shared.
C4_ParallelSum ==
    last.op = "backward" =>
        LET n == Len(parc.sub_modules)
            x == parc.backward[1].x
        IN  /\ err = ""
            /\ Len(log) = n
            /\ \A k \in 1..n :
                  /\ log[k].i = k
                  /\ SameShape(log[k].ret, x)
                  /\ \A r \in 1..NRows(x) : \A c \in 1..NCols(x) :
                        log[k].ret[r][c] =
                            SumSeq([j \in 1..NCols(log[k].arg) |->
                                       log[k].arg[r][j] * parc.sub_modules[k].w[c][j]])
            /\ SameShape(last.ret, x)
            /\ \A r \in 1..NRows(x) : \A c \in 1..NCols(x) :
                  last.ret[r][c] = SumSeq([k \in 1..n |-> log[k].ret[r][c]])

\* at least two children returned gradients that are not zero, and so is the sum
C4_Witness ==
    /\ last.op = "backward" /\ err = ""
    /\ Len(log) >= 2
    /\ \E r \in 1..NRows(last.ret) : \E c \in 1..NCols(last.ret) :
          /\ log[1].ret[r][c] # 0
          /\ log[2].ret[r][c] # 0
          /\ last.ret[r][c] # log[Len(log)].ret[r][c]

(***************************************************************************)
(* The Linear layer (walnut/nn/layers.py).  A layer's tensors x, y, w, b   *)
(* are [data, grad], each optional.  The neighbours are taken at the time  *)
(* of the call: forward(xin) runs with prev_layer.y.data = xin, and        *)
(* backward(dy) with succ_layer.x.grad = dy.                               *)
(***************************************************************************)
Ones(n, m) == Arr([i \in 1..n |-> Arr([j \in 1..m |-> 1])])
ZerosVec(n) == Arr([i \in 1..n |-> 0])

\* Linear.compile: w of shape (c_in, c_out), b of shape (c_out,) when use_bias,
\* then a first forward on the Input layer's ones of shape (1, c_in)
LinearCompiled(c_in, c_out, use_bias) ==
    LET w == GenMat(c_out, c_in, c_out)
        b == ZerosVec(c_out)
    IN  [w |-> [data |-> w, grad |-> None],
         b |-> IF use_bias THEN Some([data |-> b, grad |-> None]) ELSE None,
         use_bias |-> use_bias,
         x |-> [data |-> Some(Ones(1, c_in)), grad |-> None],
         y |-> [data |-> Some(LinearOutput(Ones(1, c_in), w, b, use_bias)), grad |-> None]]

LinInit ==
    /\ \E c_in \in 1..InDim, c_out \in 1..MaxWidth, use_bias \in BOOLEAN :
         lin = LinearCompiled(c_in, c_out, use_bias)
    /\ last = [op |-> "compile"]
    /\ err = ""
    /\ steps = 0
    /\ log = <<>>
    /\ t = Idle /\ seqc = Idle /\ parc = Idle /\ conv = Idle /\ drop = Idle /\ pool = Idle /\ soft = Idle /\ chain = Idle

\* Layer.forward, then Linear.forward
LinearForward(xin) ==
    /\ lin' = [lin EXCEPT
                 !.x.data = Some(xin),
                 !.y.data = Some(LinearOutput(xin, lin.w.data,
                                              IF lin.use_bias THEN lin.b[1].data ELSE <<>>,
                                              lin.use_bias))]
    /\ last' = [op |-> "forward", arg |-> xin]
    /\ err' = ""
    /\ UNCHANGED <<t, seqc, parc, log, conv, steps, drop, pool, soft, chain>>

\* Layer.backward, then Linear.backward.  x.T @ y.grad raises when the batch
\* sizes of x and y.grad differ; x.grad is written by then.
LinearBackward(dy) ==
    /\ LET x == lin.x.data[1]
           dx == LinearInputGrad(dy, lin.w.data)
       IN  IF NRows(x) # NRows(dy)
           THEN /\ lin' = [lin EXCEPT !.y.grad = Some(dy), !.x.grad = Some(dx)]
                /\ err' = "ValueError"
           ELSE /\ lin' = [lin EXCEPT
                             !.y.grad = Some(dy),
                             !.x.grad = Some(dx),
                             !.w.grad = Some(LinearWeightGrad(x, dy)),
                             !.b = IF lin.use_bias
                                   THEN Some([@[1] EXCEPT !.grad = Some(LinearBiasGrad(dy))])
                                   ELSE @]
                /\ err' = ""
    /\ last' = [op |-> "backward", arg |-> dy]
    /\ UNCHANGED <<t, seqc, parc, log, conv, steps, drop, pool, soft, chain>>

LinNext ==
    \/ \E n \in 1..MaxBatch : \E xin \in DenseMatrices(n, NRows(lin.w.data)) :
          LinearForward(xin)
    \/ \E n \in 1..MaxBatch : \E dy \in DenseMatrices(n, NCols(lin.w.data)) :
          LinearBackward(dy)

SpecLin == LinInit /\ [][LinNext]_vars

\* C6: the weight gradient is accumulated: a backward call on a layer that
\* already holds a weight gradient leaves w.grad = the gradient held + x.T @ dy,
\* and b.grad = the bias gradient held + the sum of dy over the batch.
C6_WeightGradAccumulated ==
    [][(last'.op = "backward" /\ err' = "" /\ lin.w.grad # None) =>
          LET x == lin.x.data[1]
              dy == last'.arg
          IN  /\ \A i \in 1..NCols(x) : \A j \in 1..NCols(dy) :
                    lin'.w.grad[1][i][j] =
                        lin.w.grad[1][i][j]
                            + SumSeq([n \in 1..NRows(x) |-> x[n][i] * dy[n][j]])
              /\ lin.use_bias =>
                    \A j \in 1..NCols(dy) :
                        lin'.b[1].grad[1][j] =
                            lin.b[1].grad[1][j] + SumSeq([n \in 1..NRows(dy) |-> dy[n][j]])
      ]_vars

\* C7: one backward call of a Linear layer with cached input x (N, c_in),
\* weights w (c_in, c_out) and upstream gradient dy (N, c_out) gives the input
\* gradient dy @ w.T of shape (N, c_in), the weight gradient x.T @ dy of shape
\* (c_in, c_out) and, with bias, the bias gradient sum(dy, axis 0) of shape
\* (c_out,); without bias no bias gradient is written.
C7_LinearBackward ==
    (last.op = "backward" /\ err = "") =>
        LET x == lin.x.data[1]
            w == lin.w.data
            dy == last.arg
            n_b == NRows(x)
            c_in == NRows(w)
            c_out == NCols(w)
        IN  /\ lin.y.grad = Some(dy)
            /\ lin.x.grad # None /\ lin.w.grad # None
            /\ NRows(lin.x.grad[1]) = n_b /\ NCols(lin.x.grad[1]) = c_in
            /\ \A n \in 1..n_b : \A i \in 1..c_in :
                  lin.x.grad[1][n][i] = SumSeq([j \in 1..c_out |-> dy[n][j] * w[i][j]])
            /\ NRows(lin.w.grad[1]) = c_in /\ NCols(lin.w.grad[1]) = c_out
            /\ \A i \in 1..c_in : \A j \in 1..c_out :
                  lin.w.grad[1][i][j] = SumSeq([n \in 1..n_b |-> x[n][i] * dy[n][j]])
            /\ IF lin.use_bias
               THEN /\ lin.b[1].grad # None
                    /\ Len(lin.b[1].grad[1]) = c_out
                    /\ \A j \in 1..c_out :
                          lin.b[1].grad[1][j] = SumSeq([n \in 1..n_b |-> dy[n][j]])
               ELSE lin.b = None

\* a backward call on a batch of two, two inputs and two outputs, with bias,
\* that left gradients that are not zero
C7_Witness ==
    /\ last.op = "backward" /\ err = ""
    /\ lin.use_bias
    /\ NRows(last.arg) = 2 /\ NRows(lin.w.data) = 2 /\ NCols(lin.w.data) = 2
    /\ lin.w.grad[1][1][2] # 0
    /\ lin.x.grad[1][2][1] # 0
    /\ lin.b[1].grad[1][1] # 0

(***************************************************************************)
(* Arrays of four axes, x[b][c][i][j], for the Convolution layer.          *)
(***************************************************************************)
Gen4(s, nb, nc, h, w) ==
    Arr([b \in 1..nb |-> Arr([c \in 1..nc |->
        Arr([i \in 1..h |-> Arr([j \in 1..w |->
            Gen(s, (((b - 1) * nc + (c - 1)) * h + (i - 1)) * w + j)])])])])

Ones4(nb, nc, h, w) ==
    Arr([b \in 1..nb |-> Arr([c \in 1..nc |-> Ones(h, w)])])

RECURSIVE SumOver(_, _, _)
\* the sum of f[i] for i in lo..hi
SumOver(f, lo, hi) == IF lo > hi THEN 0 ELSE f[lo] + SumOver(f, lo + 1, hi)

\* the shape of an array of four axes.  An array without rows keeps no column
\* extent as nested sequences; it reads as 0 here.
Shape4(x) ==
    <<Len(x), Len(x[1]), Len(x[1][1]),
      IF Len(x[1][1]) = 0 THEN 0 ELSE Len(x[1][1][1])>>

\* the sum of the n matrices ms[1], ..., ms[n] of shape (h, w), entry by entry
SumMats(ms, n, h, w) ==
    [i \in 1..h |-> [j \in 1..w |-> SumOver([k \in 1..n |-> ms[k][i][j]], 1, n)]]

\* np.pad(m, ((py, py), (px, px))) on the two spatial axes
Pad2(m, py, px) ==
    Arr([i \in 1..(NRows(m) + 2 * py) |-> Arr([j \in 1..(NCols(m) + 2 * px) |->
        IF i > py /\ i <= py + NRows(m) /\ j > px /\ j <= px + NCols(m)
        THEN m[i - py][j - px] ELSE 0])])

Pad4(x, py, px) ==
    Arr([b \in 1..Len(x) |-> Arr([c \in 1..Len(x[b]) |-> Pad2(x[b][c], py, px)])])

\* m[r0:, c0:] of a matrix m of shape (h, w), offsets r0, c0 counted from 0
\* (nothing is left when the offset is beyond the extent)
CropFrom(m, r0, c0, h, w) ==
    Arr([i \in 1..(IF r0 < h THEN h - r0 ELSE 0) |->
        Arr([j \in 1..(IF c0 < w THEN w - c0 ELSE 0) |-> m[i + r0][j + c0]])])

\* m[-r:, -c:] of a matrix m of shape (h, w): the last r rows and c columns
\* (all of them when there are fewer)
CropLast(m, r, c, h, w) ==
    CropFrom(m, IF r < h THEN h - r ELSE 0, IF c < w THEN w - c ELSE 0, h, w)

\* the kernel left as it is
Unflipped(m) == m

\* np.flip(m, axis=(0, 1)) of a kernel
Flip2(m) ==
    Arr([i \in 1..NRows(m) |-> Arr([j \in 1..NCols(m) |->
        m[NRows(m) + 1 - i][NCols(m) + 1 - j]])])

\* np.roll(m, shift=(-1, -1), axis=(0, 1)) of a matrix m of shape (h, w)
RollBack(m, h, w) ==
    Arr([i \in 1..h |-> Arr([j \in 1..w |-> m[(i % h) + 1][(j % w) + 1]])])

(***************************************************************************)
(* The paddings of walnut.nn.paddings: valid pads nothing, same pads each  *)
(* spatial side with kernel // 2 zeros.                                    *)
(***************************************************************************)
PadWidth(pad_fn, k) == IF pad_fn = "same" THEN k \div 2 ELSE 0

PadFn(pad_fn, x, kernel_shape) ==
    Pad4(x, PadWidth(pad_fn, kernel_shape[1]), PadWidth(pad_fn, kernel_shape[2]))

(***************************************************************************)
(* Convolution.__convolve (walnut/nn/layers.py).  fft2(x, s) zero-pads or  *)
(* crops x to the shape s; the inverse transform of the product of two     *)
(* transforms is the circular convolution of the two arrays, so the real   *)
(* part that __convolve returns is computed here as that sum.              *)
(***************************************************************************)
\* real(ifft2(fft2(a) * fft2(k, s=a.shape))): the circular convolution,
\* out[i][j] = sum over (u, v) of k[u][v] * a[i - u][j - v], indices from 0
\* and taken modulo the shape of a.  Of fft2(k, s=(h, w)) only the entries
\* k[u][v] with u <= h and v <= w are kept, and the entries it pads with are
\* zero: the sum runs over the kept entries.
CircConv(a, k) ==
    LET h == NRows(a)
        w == NCols(a)
        ku == Min(NRows(k), h)
        kv == Min(NCols(k), w)
    IN  [i \in 1..h |-> [j \in 1..w |->
            SumOver([u \in 1..ku |->
                SumOver([v \in 1..kv |->
                    k[u][v] * a[((i - u + h) % h) + 1][((j - v + w) % w) + 1]],
                    1, kv)], 1, ku)]]

\* __convolve(x1, x2, exp_axis): the axes added by expand_dims are broadcast.
\* The result r[b][co][ci] is a matrix; the three uses are
\*   (1, 0): x1 (b, ci, y, x), x2 (co, ci, y, x)
\*   (2, 0): x1 (b, co, y, x), x2 (co, ci, y, x)
\*   (1, 2): x1 (b, ci, y, x), x2 (b, co, y, x)
Convolve(x1, x2, exp_axis, nb, n_out, n_in) ==
    [b \in 1..nb |-> [co \in 1..n_out |-> [ci \in 1..n_in |->
        IF exp_axis = <<1, 0>> THEN CircConv(x1[b][ci], x2[co][ci])
        ELSE IF exp_axis = <<2, 0>> THEN CircConv(x1[b][co], x2[co][ci])
        ELSE CircConv(x1[b][ci], x2[b][co])]]]

(***************************************************************************)
(* The Convolution layer (walnut/nn/layers.py).                            *)
(***************************************************************************)
\* the crop [w_y - 1:, w_x - 1:] starts at kernel extent - 1
CropStart(k) == k - 1

\* Convolution.forward: y.data for the input x
ConvOutput(x, w, b, use_bias, pad_fn, kernel_shape) ==
    LET x_pad == PadFn(pad_fn, x, kernel_shape)
        w_rotated == Arr([co \in 1..Len(w) |-> Arr([ci \in 1..Len(w[co]) |->
                            Flip2(w[co][ci])])])
        nb == Len(x)
        n_out == Len(w)
        n_in == Len(w[1])
        x_conv_w == Convolve(x_pad, w_rotated, <<1, 0>>, nb, n_out, n_in)
        w_y == NRows(w[1][1])
        w_x == NCols(w[1][1])
        h == NRows(x_pad[1][1])
        wd == NCols(x_pad[1][1])
    IN  Arr([bb \in 1..nb |-> Arr([co \in 1..n_out |->
            LET m == CropFrom(SumMats(x_conv_w[bb][co], n_in, h, wd),
                              CropStart(w_y), CropStart(w_x), h, wd)
            IN  IF use_bias THEN MatAddScalar(m, b[co]) ELSE m])])

\* the input gradient of Convolution.backward
ConvInputGrad(x, y, dy, w, pad_fn) ==
    LET x_y == Len(x[1][1])
        dy_y == Len(y[1][1])
        pad == (x_y - dy_y) \div 2
        dy_p == IF pad_fn # "same" THEN Pad4(dy, pad, pad) ELSE dy
        nb == Len(dy)
        n_out == Len(w)
        n_in == Len(w[1])
        dy_conv_w == Convolve(dy_p, w, <<2, 0>>, nb, n_out, n_in)
        h == NRows(dy_p[1][1])
        wd == NCols(dy_p[1][1])
    IN  Arr([bb \in 1..nb |-> Arr([ci \in 1..n_in |->
            RollBack(SumMats([co \in 1..n_out |-> dy_conv_w[bb][co][ci]], n_out, h, wd),
                     h, wd)])])

\* the weight gradient of Convolution.backward
ConvWeightGrad(x, dy, w, pad_fn, kernel_shape) ==
    LET x_p == PadFn(pad_fn, x, kernel_shape)
        nb == Len(x)
        n_out == Len(w)
        n_in == Len(w[1])
        dy_conv_x == Convolve(x_p, dy, <<1, 2>>, nb, n_out, n_in)
        w_y == NRows(w[1][1])
        w_x == NCols(w[1][1])
        h == NRows(x_p[1][1])
        wd == NCols(x_p[1][1])
    IN  Arr([co \in 1..n_out |-> Arr([ci \in 1..n_in |->
            CropLast(SumMats([bb \in 1..nb |-> dy_conv_x[bb][co][ci]], nb, h, wd),
                     w_y, w_x, h, wd)])])

\* np.sum(a, axis=(0, 2, 3)) of an array of four axes
SumAxes023(a) ==
    Arr([c \in 1..Len(a[1]) |->
        SumSeq([b \in 1..Len(a) |->
            SumSeq([i \in 1..Len(a[b][c]) |-> SumSeq(a[b][c][i])])])])

\* the bias gradient of Convolution.backward: the sum is taken of y.data
ConvBiasGrad(y_data, y_grad) == SumAxes023(y_data)

(***************************************************************************)
(* A Convolution layer between a preceding layer, whose output it reads,   *)
(* and a succeeding layer, whose input gradient it reads.                  *)
(***************************************************************************)
\* Convolution.__init__, with the shape (c_in, y, x) of the preceding output
ConvConstructed(out_channels, kernel_shape, pad_fn, use_bias, in_shape) ==
    [compiled |-> FALSE,
     i |-> None,
     prev_layer |-> None,
     succ_layer |-> None,
     params |-> <<>>,
     out_channels |-> out_channels,
     kernel_shape |-> kernel_shape,
     pad_fn |-> pad_fn,
     use_bias |-> use_bias,
     in_shape |-> in_shape,
     w |-> None,
     b |-> None,
     x |-> [data |-> None, grad |-> None],
     y |-> [data |-> None, grad |-> None]]

\* the layers of the bounded family: every kernel shape, padding and bias flag
ConvLayers ==
    {ConvConstructed(1 + (h % MaxChan), <<ky, kx>>, pad_fn, use_bias,
                     <<1 + ((ky + kx) % MaxChan), h, h + ((ky + kx + h) % 2)>>) :
        ky \in 1..MaxK, kx \in 1..MaxK, h \in 1..MaxH,
        pad_fn \in {"valid", "same"}, use_bias \in BOOLEAN}

\* the kernel is no larger than the padded input
KernelFits(c) ==
    /\ c.kernel_shape[1] <= c.in_shape[2] + 2 * PadWidth(c.pad_fn, c.kernel_shape[1])
    /\ c.kernel_shape[2] <= c.in_shape[3] + 2 * PadWidth(c.pad_fn, c.kernel_shape[2])

ConvInit ==
    /\ conv \in ConvLayers
    /\ last = [op |-> "init"]
    /\ err = ""
    /\ steps = 0
    /\ log = <<>>
    /\ t = Idle /\ seqc = Idle /\ parc = Idle /\ lin = Idle /\ drop = Idle /\ pool = Idle /\ soft = Idle /\ chain = Idle

ConvBias(c) == IF c.use_bias THEN c.b[1].data ELSE <<>>

\* a check of the output shape that looks at the rows only
TooSmallRowsOnly(y_y, y_x, w_y, w_x) == y_y < w_y

\* if y_y < w_y or y_x < w_x
OutputTooSmall(y_y, y_x, w_y, w_x) == y_y < w_y \/ y_x < w_x

\* Convolution.compile: weights from init_fn, zero bias, one forward
\* pass over the preceding output, then the check of the output shape
ConvCompile ==
    /\ ~conv.compiled
    /\ LET c_in == conv.in_shape[1]
           w == Gen4(conv.out_channels, conv.out_channels, c_in, conv.kernel_shape[1], conv.kernel_shape[2])
           b == ZerosVec(conv.out_channels)
           x == Ones4(1, c_in, conv.in_shape[2], conv.in_shape[3])
           y == ConvOutput(x, w, b, conv.use_bias, conv.pad_fn, conv.kernel_shape)
           w_y == conv.kernel_shape[1]
           w_x == conv.kernel_shape[2]
       IN  /\ conv' = [conv EXCEPT
                         !.i = Some(1),
                         !.prev_layer = Some("prev"),
                         !.succ_layer = Some("succ"),
                         !.compiled = TRUE,
                         !.w = Some([data |-> w, grad |-> None]),
                         !.b = IF conv.use_bias THEN Some([data |-> b, grad |-> None]) ELSE @,
                         !.params = <<"w", "b">>,
                         !.x.data = Some(x),
                         !.y.data = Some(y)]
           /\ err' = IF OutputTooSmall(Shape4(y)[3], Shape4(y)[4], w_y, w_x)
                     THEN "ValueError" ELSE ""
    /\ last' = [op |-> "compile"]
    /\ UNCHANGED <<t, seqc, parc, log, lin, steps, drop, pool, soft, chain>>

\* a step of the optimizer that owns the parameters, taken after a backward
\* pass: the bias leaves zero
ConvUpdateBias ==
    /\ conv.compiled /\ err = ""
    /\ conv.use_bias
    /\ last.op = "backward"
    /\ conv.b[1].data = ZerosVec(conv.out_channels)
    /\ conv' = [conv EXCEPT !.b = Some([@[1] EXCEPT !.data = GenVec(conv.out_channels, conv.out_channels)])]
    /\ last' = [op |-> "update"]
    /\ UNCHANGED <<t, seqc, parc, log, lin, err, steps, drop, pool, soft, chain>>

\* Layer.forward, then Convolution.forward
ConvForward(xin) ==
    /\ conv.compiled /\ err = ""
    /\ conv' = [conv EXCEPT
                  !.x.data = Some(xin),
                  !.y.data = Some(ConvOutput(xin, conv.w[1].data, ConvBias(conv),
                                             conv.use_bias, conv.pad_fn, conv.kernel_shape))]
    /\ last' = [op |-> "forward", arg |-> xin]
    /\ UNCHANGED <<t, seqc, parc, log, lin, err, steps, drop, pool, soft, chain>>

\* Layer.backward, then Convolution.backward
ConvBackward(dy) ==
    /\ conv.compiled /\ err = ""
    /\ LET x == conv.x.data[1]
           y == conv.y.data[1]
           w == conv.w[1].data
       IN  conv' = [conv EXCEPT
                      !.y.grad = Some(dy),
                      !.x.grad = Some(ConvInputGrad(x, y, dy, w, conv.pad_fn)),
                      !.w = Some([@[1] EXCEPT !.grad =
                                Some(ConvWeightGrad(x, dy, w, conv.pad_fn, conv.kernel_shape))]),
                      !.b = IF conv.use_bias
                            THEN Some([@[1] EXCEPT !.grad = Some(ConvBiasGrad(y, dy))])
                            ELSE @]
    /\ last' = [op |-> "backward", arg |-> dy]
    /\ UNCHANGED <<t, seqc, parc, log, lin, err, steps, drop, pool, soft, chain>>

ConvNext ==
    \/ ConvCompile
    \/ ConvUpdateBias
    \/ \E n \in 1..MaxBatch :
          ConvForward(Gen4(n, n, conv.in_shape[1], conv.in_shape[2], conv.in_shape[3]))
    \/ /\ conv.compiled
       /\ LET sh == Shape4(conv.y.data[1])
          IN  ConvBackward(Gen4(sh[1] + 1, sh[1], sh[2], sh[3], sh[4]))

SpecConv == ConvInit /\ [][ConvNext]_vars

(***************************************************************************)
(* The direct sliding-window reference: the cross-correlation of a padded  *)
(* input with the kernel, and its gradient with respect to the input.      *)
(***************************************************************************)
\* sum over co, u, v of w[co][ci][u][v] * dy[b][co][p - u + 1][q - v + 1],
\* the terms whose window lies inside dy: the gradient at the padded
\* position (p, q)
DirectPaddedGrad(dy, w, b, ci, p, q) ==
    SumOver([co \in 1..Len(w) |->
        SumOver([u \in 1..NRows(w[co][ci]) |->
            SumOver([v \in 1..NCols(w[co][ci]) |->
                IF /\ p - u + 1 >= 1 /\ p - u + 1 <= NRows(dy[b][co])
                   /\ q - v + 1 >= 1 /\ q - v + 1 <= NCols(dy[b][co])
                THEN w[co][ci][u][v] * dy[b][co][p - u + 1][q - v + 1]
                ELSE 0],
                1, NCols(w[co][ci]))],
            1, NRows(w[co][ci]))],
        1, Len(w))

\* the window sum at output position (i, j) of channel co
DirectWindow(xp, w, b, co, i, j) ==
    SumOver([ci \in 1..Len(w[co]) |->
        SumOver([u \in 1..NRows(w[co][ci]) |->
            SumOver([v \in 1..NCols(w[co][ci]) |->
                xp[b][ci][i + u - 1][j + v - 1] * w[co][ci][u][v]],
                1, NCols(w[co][ci]))],
            1, NRows(w[co][ci]))],
        1, Len(w[co]))

\* C8: after a backward pass the bias gradient holds, per output channel, the
\* sum of the upstream gradient y.grad over the batch and both spatial axes.
C8_BiasGradSumsUpstream ==
    (last.op = "backward" /\ conv.use_bias) =>
        LET dy == conv.y.grad[1]
            g == conv.b[1].grad
        IN  /\ g # None
            /\ Len(g[1]) = conv.out_channels
            /\ \A co \in 1..conv.out_channels :
                  g[1][co] = SumOver([b \in 1..Len(dy) |->
                                 SumOver([i \in 1..NRows(dy[b][co]) |->
                                     SumSeq(dy[b][co][i])],
                                     1, NRows(dy[b][co]))],
                                 1, Len(dy))

\* C9: after a forward pass (the one of compile included) the output equals
\* the direct cross-correlation of the padded input with the kernel, plus the
\* bias when enabled, over padded extent - kernel extent + 1 positions per axis.
C9_ForwardIsCrossCorrelation ==
    (last.op \in {"compile", "forward"} /\ KernelFits(conv)) =>
        LET x == conv.x.data[1]
            xp == PadFn(conv.pad_fn, x, conv.kernel_shape)
            w == conv.w[1].data
            y == conv.y.data[1]
            out_y == Shape4(xp)[3] - conv.kernel_shape[1] + 1
            out_x == Shape4(xp)[4] - conv.kernel_shape[2] + 1
        IN  /\ Shape4(y) = <<Len(x), conv.out_channels, out_y, out_x>>
            /\ \A b \in 1..Len(x) : \A co \in 1..conv.out_channels :
               \A i \in 1..out_y : \A j \in 1..out_x :
                  y[b][co][i][j] =
                      DirectWindow(xp, w, b, co, i, j)
                          + (IF conv.use_bias THEN conv.b[1].data[co] ELSE 0)

\* a forward pass of a batch of two over two input channels with a kernel of
\* more than one entry and a bias that is not zero
C9_Witness ==
    /\ last.op = "forward"
    /\ Len(conv.x.data[1]) >= 2
    /\ conv.in_shape[1] >= 2
    /\ conv.kernel_shape[1] * conv.kernel_shape[2] >= 2
    /\ conv.pad_fn = "same"
    /\ conv.use_bias
    /\ \E co \in 1..conv.out_channels : conv.b[1].data[co] # 0
    /\ \E co \in 1..conv.out_channels :
          conv.y.data[1][1][co][1][1] # conv.b[1].data[co]

\* C10: after a backward pass the input gradient has the shape of the layer
\* input and equals the input gradient of the direct reference: the gradient
\* at the padded positions, with the padding removed.
C10_InputGradIsReference ==
    (last.op = "backward") =>
        LET x == conv.x.data[1]
            dy == conv.y.grad[1]
            w == conv.w[1].data
            g == conv.x.grad[1]
            py == PadWidth(conv.pad_fn, conv.kernel_shape[1])
            px == PadWidth(conv.pad_fn, conv.kernel_shape[2])
        IN  /\ Shape4(g) = Shape4(x)
            /\ \A b \in 1..Len(x) : \A ci \in 1..Len(x[b]) :
               \A i \in 1..NRows(x[b][ci]) : \A j \in 1..NCols(x[b][ci]) :
                  g[b][ci][i][j] = DirectPaddedGrad(dy, w, b, ci, i + py, j + px)

\* the reference weight gradient at kernel position (u, v): the sum over the
\* batch and the output positions of x_pad[b][ci][i + u - 1][j + v - 1] * dy[b][co][i][j]
DirectWeightGrad(xp, dy, co, ci, u, v) ==
    SumOver([b \in 1..Len(dy) |->
        SumOver([i \in 1..NRows(dy[b][co]) |->
            SumOver([j \in 1..NCols(dy[b][co]) |->
                xp[b][ci][i + u - 1][j + v - 1] * dy[b][co][i][j]],
                1, NCols(dy[b][co]))],
            1, NRows(dy[b][co]))],
        1, Len(dy))

\* C11: after a backward pass the weight gradient has the shape of the
\* weights and equals the weight gradient of the direct reference,
\* dw[co][ci][u][v] = sum over b, i, j of x_pad[b][ci][i + u][j + v] * dy[b][co][i][j].
C11_WeightGradIsReference ==
    (last.op = "backward") =>
        LET x == conv.x.data[1]
            xp == PadFn(conv.pad_fn, x, conv.kernel_shape)
            dy == conv.y.grad[1]
            w == conv.w[1].data
            g == conv.w[1].grad[1]
        IN  /\ Shape4(g) = Shape4(w)
            /\ \A co \in 1..Len(w) : \A ci \in 1..Len(w[co]) :
               \A u \in 1..conv.kernel_shape[1] : \A v \in 1..conv.kernel_shape[2] :
                  g[co][ci][u][v] = DirectWeightGrad(xp, dy, co, ci, u, v)

\* the output extent along one axis: padded extent - kernel extent + 1
OutExtent(c, a) ==
    c.in_shape[a + 1] + 2 * PadWidth(c.pad_fn, c.kernel_shape[a]) - c.kernel_shape[a] + 1

\* C12: compile raises ValueError exactly when the output extent is smaller
\* than the kernel extent along the rows or along the columns, and otherwise
\* ends without error with the layer compiled.
C12_CompileValidation ==
    (last.op = "compile") =>
        /\ (err = "ValueError") <=>
              (\/ OutExtent(conv, 1) < conv.kernel_shape[1]
               \/ OutExtent(conv, 2) < conv.kernel_shape[2])
        /\ err \in {"", "ValueError"}
        /\ err = "" => conv.compiled

\* a compile that raises for the columns alone
C12_Witness ==
    /\ last.op = "compile"
    /\ err = "ValueError"
    /\ OutExtent(conv, 1) >= conv.kernel_shape[1]
    /\ OutExtent(conv, 2) < conv.kernel_shape[2]

\* C13: a call whose validation fails leaves the layer as it was before the
\* call: links, compiled flag, parameters and the input/output cache.
C13_FailedValidationMutatesNothing ==
    [][(err' = "ValueError") => (conv' = conv)]_vars

(***************************************************************************)
(* Construction of layers (walnut/nn/layers.py): Linear.__init__,          *)
(* Convolution.__init__ and Dropout.__init__ validate their argument.  A   *)
(* constructor that raises binds no object: the variable keeps its value.  *)
(* A drop rate is the fraction d_rate / RateDen, kept as its numerator.    *)
(***************************************************************************)
\* a check that lets zero output channels pass
InvalidOutChannelsNegative(out_channels) == out_channels < 0

\* if out_channels < 1
InvalidOutChannels(out_channels) == out_channels < 1

\* a check that lets a drop rate of exactly 1 pass
InvalidDropRateOpen(d_rate) == d_rate < 0 \/ d_rate > RateDen

\* if d_rate < 0 or d_rate >= 1
InvalidDropRate(d_rate) == d_rate < 0 \/ d_rate >= RateDen

\* Layer.__init__, ParamLayer.__init__ and Linear.__init__
LinearConstructed(out_channels, use_bias) ==
    [compiled |-> FALSE,
     mode |-> "eval",
     i |-> None,
     prev_layer |-> None,
     succ_layer |-> None,
     params |-> <<>>,
     out_channels |-> out_channels,
     use_bias |-> use_bias,
     w |-> None,
     b |-> None,
     x |-> [data |-> None, grad |-> None],
     y |-> [data |-> None, grad |-> None]]

\* Layer.__init__ and Dropout.__init__
DropConstructed(d_rate) ==
    [compiled |-> FALSE,
     mode |-> "eval",
     d_rate |-> d_rate,
     d_map |-> None,
     x |-> [data |-> None, grad |-> None],
     y |-> [data |-> None, grad |-> None]]

NewInit ==
    /\ lin = Idle /\ conv = Idle /\ drop = Idle
    /\ last = [op |-> "init"]
    /\ err = ""
    /\ steps = 0
    /\ log = <<>>
    /\ t = Idle /\ seqc = Idle /\ parc = Idle /\ pool = Idle /\ soft = Idle /\ chain = Idle

\* lin = Linear(out_channels, use_bias=use_bias)
NewLinear(out_channels, use_bias) ==
    /\ IF InvalidOutChannels(out_channels)
       THEN err' = "ValueError" /\ lin' = lin
       ELSE err' = "" /\ lin' = LinearConstructed(out_channels, use_bias)
    /\ last' = [op |-> "new", cls |-> "Linear", out_channels |-> out_channels]
    /\ UNCHANGED <<t, seqc, parc, log, conv, drop, pool, steps, soft, chain>>

\* conv = Convolution(out_channels, kernel_shape, use_bias=use_bias)
NewConvolution(out_channels, kernel_shape, use_bias) ==
    /\ IF InvalidOutChannels(out_channels)
       THEN err' = "ValueError" /\ conv' = conv
       ELSE /\ err' = ""
            /\ conv' = ConvConstructed(out_channels, kernel_shape, "valid", use_bias,
                                       <<MaxChan, MaxH, MaxH>>)
    /\ last' = [op |-> "new", cls |-> "Convolution", out_channels |-> out_channels]
    /\ UNCHANGED <<t, seqc, parc, log, lin, drop, pool, steps, soft, chain>>

\* drop = Dropout(d_rate / RateDen)
NewDropout(d_rate) ==
    /\ IF InvalidDropRate(d_rate)
       THEN err' = "ValueError" /\ drop' = drop
       ELSE err' = "" /\ drop' = DropConstructed(d_rate)
    /\ last' = [op |-> "new", cls |-> "Dropout", d_rate |-> d_rate]
    /\ UNCHANGED <<t, seqc, parc, log, lin, conv, pool, steps, soft, chain>>

NewNext ==
    \/ \E out_channels \in (0 - 1)..MaxChan, use_bias \in BOOLEAN :
          NewLinear(out_channels, use_bias)
    \/ \E out_channels \in (0 - 1)..MaxChan, k \in {1, MaxK}, use_bias \in BOOLEAN :
          NewConvolution(out_channels, <<k, k>>, use_bias)
    \/ \E d_rate \in (0 - 1)..(RateDen + 1) : NewDropout(d_rate)

SpecNew == NewInit /\ [][NewNext]_vars

\* C14: constructing a Linear or Convolution layer raises ValueError when
\* out_channels < 1 (zero or negative), and every out_channels >= 1 is
\* accepted: no error, and the layer holds that out_channels.
C14_OutChannelsValidated ==
    (last.op = "new" /\ last.cls \in {"Linear", "Convolution"}) =>
        /\ (last.out_channels < 1) => (err = "ValueError")
        /\ (last.out_channels >= 1) =>
              /\ err = ""
              /\ last.cls = "Linear" => lin.out_channels = last.out_channels
              /\ last.cls = "Convolution" => conv.out_channels = last.out_channels

\* a Convolution with zero output channels is rejected after a Linear layer
\* was constructed
C14_Witness ==
    /\ last.op = "new" /\ last.cls = "Convolution"
    /\ last.out_channels = 0
    /\ err = "ValueError"
    /\ lin # Idle

\* C15: constructing a Dropout layer raises ValueError exactly when the drop
\* rate is below 0 or at least 1 (exactly 1 included); 0 and every rate below
\* 1 is accepted, and the layer holds that rate.
C15_DropRateValidated ==
    (last.op = "new" /\ last.cls = "Dropout") =>
        /\ (err = "ValueError") <=> (last.d_rate < 0 \/ last.d_rate >= RateDen)
        /\ err \in {"", "ValueError"}
        /\ err = "" => drop.d_rate = last.d_rate

\* a drop rate of exactly 1 is rejected
C15_Witness ==
    /\ last.op = "new" /\ last.cls = "Dropout"
    /\ last.d_rate = RateDen
    /\ err = "ValueError"

(***************************************************************************)
(* The Dropout layer (walnut/nn/layers.py).  Its arrays are vectors of     *)
(* fractions [n, d] in lowest terms with d > 0: y = x * d_map / (1 - rate) *)
(* is exact in the rationals, and the rounding of floats is not modelled.  *)
(***************************************************************************)
Abs(a) == IF a < 0 THEN 0 - a ELSE a

RECURSIVE GCD(_, _)
GCD(a, b) == IF b = 0 THEN a ELSE GCD(b, a % b)

\* the fraction n / d (d > 0) in lowest terms
Frac(n, d) ==
    LET g == GCD(Abs(n), d)
    IN  [n |-> n \div g, d |-> d \div g]

FracVec(v) == Arr([i \in 1..Len(v) |-> Frac(v[i], 1)])

\* a / (1 - d_rate / RateDen)
DivKeepRate(a, d_rate) == Frac(a.n * RateDen, a.d * (RateDen - d_rate))

\* the shape of a * b for vectors under broadcasting; 0 when they do not broadcast
BroadcastLen(a, b) ==
    IF Len(a) = Len(b) THEN Len(a)
    ELSE IF Len(a) = 1 THEN Len(b)
    ELSE IF Len(b) = 1 THEN Len(a)
    ELSE 0

\* a * d_map / (1 - d_rate) for a vector a of fractions and a 0/1 vector d_map
MaskAndScale(a, d_map, d_rate) ==
    Arr([i \in 1..BroadcastLen(a, d_map) |->
        LET ai == IF Len(a) = 1 THEN a[1] ELSE a[i]
            mi == IF Len(d_map) = 1 THEN d_map[1] ELSE d_map[i]
        IN  DivKeepRate(Frac(ai.n * mi, ai.d), d_rate)])

\* a gradient that is scaled but not masked
DropInputGradUnmasked(dy, d_map, d_rate) ==
    Arr([i \in 1..Len(dy) |-> DivKeepRate(dy[i], d_rate)])

\* self.y.grad * self.d_map / (1 - self.d_rate)
DropInputGrad(dy, d_map, d_rate) == MaskAndScale(dy, d_map, d_rate)

\* a layer that takes every mode for training
IsEvalNever(mode) == FALSE

\* if self.mode == 'eval'
IsEval(mode) == mode = "eval"

\* np.random.choice([0, 1], shape, p=[d_rate, 1 - d_rate]): every 0/1 array
\* of the shape, and the array of ones alone when the rate is 0
Masks(n, d_rate) ==
    IF d_rate = 0 THEN {Arr([i \in 1..n |-> 1])}
    ELSE {Arr(f) : f \in [1..n -> {0, 1}]}

DropInit ==
    /\ drop \in {DropConstructed(d_rate) : d_rate \in 0..(RateDen - 1)}
    /\ last = [op |-> "init"]
    /\ err = ""
    /\ steps = 0
    /\ log = <<>>
    /\ t = Idle /\ seqc = Idle /\ parc = Idle /\ lin = Idle /\ conv = Idle /\ pool = Idle /\ soft = Idle /\ chain = Idle

\* Layer.forward and Dropout.forward on the layer d with the preceding
\* output xin and the array d_map drawn when the layer is not in eval mode
DropForwarded(d, xin, d_map) ==
    IF IsEval(d.mode)
    THEN [d EXCEPT !.x.data = Some(xin), !.y.data = Some(xin)]
    ELSE [d EXCEPT !.x.data = Some(xin),
                   !.d_map = Some(d_map),
                   !.y.data = Some(MaskAndScale(xin, d_map, d.d_rate))]

\* Dropout.compile: the layer is linked and runs one forward pass over the
\* preceding output, an array of ones
DropCompile ==
    /\ ~drop.compiled
    /\ \E d_map \in Masks(1, drop.d_rate) :
          /\ drop' = DropForwarded([drop EXCEPT !.compiled = TRUE], FracVec(<<1>>), d_map)
          /\ last' = [op |-> "compile", arg |-> FracVec(<<1>>), mode |-> drop.mode,
                      d_map |-> d_map]
    /\ err' = ""
    /\ UNCHANGED <<t, seqc, parc, log, lin, conv, pool, steps, soft, chain>>

\* layer.mode = mode, set by the model that owns the layer
DropSetMode(mode) ==
    /\ drop.mode # mode
    /\ drop' = [drop EXCEPT !.mode = mode]
    /\ last' = [op |-> "mode"]
    /\ UNCHANGED <<t, seqc, parc, log, lin, conv, pool, err, steps, soft, chain>>

\* Dropout.forward
DropForward(xin) ==
    /\ drop.compiled
    /\ \E d_map \in Masks(Len(xin), drop.d_rate) :
          /\ drop' = DropForwarded(drop, xin, d_map)
          /\ last' = [op |-> "forward", arg |-> xin, mode |-> drop.mode, d_map |-> d_map]
    /\ err' = ""
    /\ UNCHANGED <<t, seqc, parc, log, lin, conv, pool, steps, soft, chain>>

\* Layer.backward and Dropout.backward: y.grad is stored, then the product
\* with d_map raises TypeError when d_map is None and ValueError when the
\* shapes do not broadcast
DropBackward(dy) ==
    /\ drop.compiled
    /\ IF drop.d_map = None
       THEN /\ drop' = [drop EXCEPT !.y.grad = Some(dy)]
            /\ err' = "TypeError"
       ELSE IF BroadcastLen(dy, drop.d_map[1]) = 0
       THEN /\ drop' = [drop EXCEPT !.y.grad = Some(dy)]
            /\ err' = "ValueError"
       ELSE /\ drop' = [drop EXCEPT
                          !.y.grad = Some(dy),
                          !.x.grad = Some(DropInputGrad(dy, drop.d_map[1], drop.d_rate))]
            /\ err' = ""
    /\ last' = [op |-> "backward", arg |-> dy]
    /\ UNCHANGED <<t, seqc, parc, log, lin, conv, pool, steps, soft, chain>>

DropNext ==
    \/ DropCompile
    \/ \E mode \in {"eval", "train"} : DropSetMode(mode)
    \/ \E n \in 1..MaxLen : DropForward(FracVec(GenVec(n, n)))
    \/ /\ drop.compiled
       /\ DropBackward(FracVec(GenVec(Len(drop.y.data[1]) + 1, Len(drop.y.data[1]))))

SpecDrop == DropInit /\ [][DropNext]_vars

\* C16: a forward call of a Dropout layer in eval mode leaves the output
\* equal to the input, draws no mask, and leaves the cached d_map unchanged.
C16_EvalForwardIsIdentity ==
    [][(last'.op = "forward" /\ drop.mode = "eval") =>
          /\ drop'.x.data = Some(last'.arg)
          /\ drop'.y.data = Some(last'.arg)
          /\ drop'.d_map = drop.d_map
      ]_vars

\* an eval-mode forward pass of a layer that holds a mask with a zero, over
\* an input of another length than the mask
C16_Witness ==
    /\ last.op = "forward" /\ last.mode = "eval"
    /\ drop.d_map # None
    /\ \E i \in 1..Len(drop.d_map[1]) : drop.d_map[1][i] = 0
    /\ Len(drop.d_map[1]) # Len(drop.x.data[1])

\* C17: when backward follows a training-mode forward pass, the gradient is
\* dy * m / (1 - rate) entry by entry, m being the 0/1 mask that forward drew,
\* cached, and used for y = x * m / (1 - rate); backward leaves the cached
\* mask as it is, so output and gradient are zero at the same dropped
\* positions.
C17_BackwardUsesCachedMask ==
    [][(last.op = "forward" /\ last.mode = "train" /\ last'.op = "backward") =>
          LET m == last.d_map
              x == last.arg
              dy == last'.arg
          IN  /\ err' = ""
              /\ drop.d_map = Some(m)
              /\ drop'.d_map = Some(m)
              /\ Len(drop.y.data[1]) = Len(x)
              /\ Len(drop'.x.grad[1]) = Len(dy)
              /\ \A i \in 1..Len(x) :
                    /\ m[i] \in {0, 1}
                    /\ drop.y.data[1][i] =
                          Frac(x[i].n * m[i] * RateDen, x[i].d * (RateDen - drop.d_rate))
                    /\ drop'.x.grad[1][i] =
                          Frac(dy[i].n * m[i] * RateDen, dy[i].d * (RateDen - drop.d_rate))
                    /\ m[i] = 0 => (drop.y.data[1][i].n = 0 /\ drop'.x.grad[1][i].n = 0)
      ]_vars

\* a backward pass after a training forward pass that dropped one of two
\* entries at a rate above 0
C17_Witness ==
    /\ last.op = "backward"
    /\ err = ""
    /\ drop.mode = "train"
    /\ drop.d_rate > 0
    /\ drop.d_map # None
    /\ Len(drop.d_map[1]) = 2
    /\ drop.d_map[1][1] # drop.d_map[1][2]
    /\ \E i \in 1..2 : drop.x.grad[1][i].n # 0
    /\ \E i \in 1..2 : drop.x.grad[1][i].n = 0 /\ drop.y.grad[1][i].n # 0

\* C18: with a drop rate of 0, in either mode, a forward pass leaves the output
\* equal to the input and the backward pass that follows it leaves the input
\* gradient equal to the upstream gradient.
C18_ZeroRateIsIdentity ==
    [][(drop.d_rate = 0) =>
          /\ (last'.op = "forward") => (drop'.y.data = Some(last'.arg))
          /\ (last.op = "forward" /\ last'.op = "backward") =>
                (err' = "" /\ drop'.x.grad = Some(last'.arg))
      ]_vars

(***************************************************************************)
(* MaxPooling.  An array is kept with its shape, <<shape, data>>: an      *)
(* output without rows still has a column extent in numpy.                 *)
(***************************************************************************)
\* the array of shape sh whose entry (b, c, i, j) is F(b, c, i, j)
Build4(sh, F(_, _, _, _)) ==
    <<sh, Arr([b \in 1..sh[1] |-> Arr([c \in 1..sh[2] |->
            Arr([i \in 1..sh[3] |-> Arr([j \in 1..sh[4] |-> F(b, c, i, j)])])])])>>

\* a stored array of four axes with its shape
WithShape(sh, a) == <<sh, a>>

\* the shape and the entries of such an array
ShapeOf(a) == a[1]
DataOf(a) == a[2]

Size4(sh) == sh[1] * sh[2] * sh[3] * sh[4]

\* the row-major position, from 0, of entry (b, c, i, j) in an array of shape sh
FlatIndex(sh, b, c, i, j) ==
    (((b - 1) * sh[2] + (c - 1)) * sh[3] + (i - 1)) * sh[4] + (j - 1)

\* the entry at row-major position k, from 0
FlatAt(a, k) ==
    LET sh == ShapeOf(a)
    IN  DataOf(a)[k \div (sh[2] * sh[3] * sh[4]) + 1]
              [((k \div (sh[3] * sh[4])) % sh[2]) + 1]
              [((k \div sh[4]) % sh[3]) + 1]
              [(k % sh[4]) + 1]

\* np.resize(a, target_shape): zeros when either array is empty, otherwise the
\* flattened array repeated as often as needed and cut to the new size
Resize(a, target_shape) ==
    IF Size4(ShapeOf(a)) = 0 \/ Size4(target_shape) = 0
    THEN Build4(target_shape, LAMBDA b, c, i, j : 0)
    ELSE Build4(target_shape, LAMBDA b, c, i, j :
            FlatAt(a, FlatIndex(target_shape, b, c, i, j) % Size4(ShapeOf(a))))

\* np.repeat(x, fa1, axis=2) followed by np.repeat(.., fa2, axis=3)
Repeat23(x, fa1, fa2) ==
    Build4(<<ShapeOf(x)[1], ShapeOf(x)[2], ShapeOf(x)[3] * fa1, ShapeOf(x)[4] * fa2>>,
           LAMBDA b, c, i, j : DataOf(x)[b][c][(i - 1) \div fa1 + 1][(j - 1) \div fa2 + 1])

\* MaxPooling.__stretch with axis = (2, 3)
Stretch(x, streching, target_shape) ==
    Resize(Repeat23(x, streching[1], streching[2]), target_shape)

\* MaxPooling.__crop
PoolCrop(x, p_window) ==
    LET y_fit == (ShapeOf(x)[3] \div p_window[1]) * p_window[1]
        x_fit == (ShapeOf(x)[4] \div p_window[2]) * p_window[2]
    IN  Build4(<<ShapeOf(x)[1], ShapeOf(x)[2], y_fit, x_fit>>,
               LAMBDA b, c, i, j : DataOf(x)[b][c][i][j])

MinOf(S) == CHOOSE m \in S : \A v \in S : m <= v

\* np.max
MaxOf(S) == CHOOSE m \in S : \A v \in S : v <= m

\* np.max(chunk, axis=(2, 3)) at batch b and channel c, for the chunk
\* x[:, :, y*p_y : (y+1)*p_y, x*p_x : (x+1)*p_x] (y and xx count from 1 here)
ChunkMax(x, b, c, y, xx, p_y, p_x) ==
    MaxOf({DataOf(x)[b][c][i][j] : i \in ((y - 1) * p_y + 1)..(y * p_y),
                                j \in ((xx - 1) * p_x + 1)..(xx * p_x)})

\* (dy_s * p_map)[:, :, :x_y, :x_x] without the mask
PoolInputGradUnmasked(dy_s, p_map, x_y, x_x) ==
    Build4(<<ShapeOf(dy_s)[1], ShapeOf(dy_s)[2], Min(ShapeOf(dy_s)[3], x_y), Min(ShapeOf(dy_s)[4], x_x)>>,
           LAMBDA b, c, i, j : DataOf(dy_s)[b][c][i][j])

\* (dy_s * self.p_map)[:, :, :x_y, :x_x]
PoolInputGrad(dy_s, p_map, x_y, x_x) ==
    Build4(<<ShapeOf(p_map)[1], ShapeOf(p_map)[2], Min(ShapeOf(p_map)[3], x_y), Min(ShapeOf(p_map)[4], x_x)>>,
           LAMBDA b, c, i, j : DataOf(dy_s)[b][c][i][j] * DataOf(p_map)[b][c][i][j])

\* MaxPooling(p_window)
PoolConstructed(p_window) ==
    [compiled |-> FALSE, mode |-> "eval", p_window |-> p_window, p_map |-> None,
     x |-> [data |-> None, grad |-> None],
     y |-> [data |-> None, grad |-> None]]

PoolInit ==
    /\ pool \in {PoolConstructed(<<p_y, p_x>>) : p_y \in 1..MaxK, p_x \in 1..MaxK}
    /\ t = Idle /\ seqc = Idle /\ parc = Idle /\ log = Idle /\ lin = Idle
    /\ conv = Idle /\ drop = Idle /\ soft = Idle /\ chain = Idle
    /\ last = [op |-> "init"]
    /\ err = ""
    /\ steps = 0

\* MaxPooling.forward on DataOf(x) = xin
PoolForwarded(p, xin) ==
    LET x_pad == PoolCrop(xin, p.p_window)
        p_y == p.p_window[1]
        p_x == p.p_window[2]
        y == Build4(<<ShapeOf(xin)[1], ShapeOf(xin)[2], ShapeOf(x_pad)[3] \div p_y, ShapeOf(x_pad)[4] \div p_x>>,
                    LAMBDA b, c, i, j : ChunkMax(xin, b, c, i, j, p_y, p_x))
        y_s == Stretch(y, p.p_window, ShapeOf(x_pad))
    IN  [p EXCEPT !.x.data = Some(xin),
                  !.y.data = Some(y),
                  !.p_map = Some(Build4(ShapeOf(x_pad), LAMBDA b, c, i, j :
                      IF DataOf(x_pad)[b][c][i][j] = DataOf(y_s)[b][c][i][j] THEN 1 ELSE 0))]

\* MaxPooling.compile: the links of Layer.compile, then forward on the output
\* of the previous layer (ones after Input.compile)
PoolCompile(sh) ==
    /\ ~pool.compiled
    /\ pool' = [PoolForwarded(pool, WithShape(sh, Ones4(sh[1], sh[2], sh[3], sh[4])))
                   EXCEPT !.compiled = TRUE]
    /\ last' = [op |-> "compile", arg |-> WithShape(sh, Ones4(sh[1], sh[2], sh[3], sh[4]))]
    /\ err' = ""
    /\ UNCHANGED <<t, seqc, parc, log, lin, conv, drop, steps, soft, chain>>

\* MaxPooling.forward.  It reads no gradient and overwrites x.data, y.data
\* and p_map whole, so the passes are followed up to the first backward call.
PoolForward(xin) ==
    /\ pool.compiled
    /\ pool.y.grad = None
    /\ pool' = PoolForwarded(pool, xin)
    /\ last' = [op |-> "forward", arg |-> xin]
    /\ err' = ""
    /\ UNCHANGED <<t, seqc, parc, log, lin, conv, drop, steps, soft, chain>>

\* MaxPooling.backward with succ_layer.x.grad = dy
PoolBackward(dy) ==
    /\ pool.compiled
    /\ last.op \in {"compile", "forward"}
    /\ LET p_map == pool.p_map[1]
           dy_s == Stretch(dy, pool.p_window, ShapeOf(p_map))
           x_sh == ShapeOf(pool.x.data[1])
       IN  pool' = [pool EXCEPT !.y.grad = Some(dy),
                                !.x.grad = Some(PoolInputGrad(dy_s, p_map, x_sh[3], x_sh[4]))]
    /\ last' = [op |-> "backward", arg |-> dy]
    /\ err' = ""
    /\ UNCHANGED <<t, seqc, parc, log, lin, conv, drop, steps, soft, chain>>

PoolShapes == {<<nb, MaxChan, h, w>> : nb \in {1, MaxBatch}, h \in 1..MaxH, w \in 1..MaxH}

PoolNext ==
    \/ \E sh \in PoolShapes : PoolCompile(sh)
    \/ \E sh \in PoolShapes, s \in 1..MaxSeed :
          PoolForward(WithShape(sh, Gen4(s, sh[1], sh[2], sh[3], sh[4])))
    \/ \E more \in 0..1 :
          LET ysh == ShapeOf(pool.y.data[1])
              sh == <<ysh[1], ysh[2], ysh[3] + more, ysh[4]>>
          IN  PoolBackward(WithShape(sh, Gen4(ysh[3] + 1, sh[1], sh[2], sh[3], sh[4])))

SpecPool == PoolInit /\ [][PoolNext]_vars

\* the window of the cropped input that holds position (i, j): the positions
\* of one output element
WindowOf(i, j, p_window) ==
    LET y == (i - 1) \div p_window[1]
        xx == (j - 1) \div p_window[2]
    IN  {<<u, v>> : u \in (y * p_window[1] + 1)..((y + 1) * p_window[1]),
                    v \in (xx * p_window[2] + 1)..((xx + 1) * p_window[2])}

\* x with every entry outside the first h rows and w columns set to v
OutsideSetTo(x, h, w, v) ==
    Build4(ShapeOf(x), LAMBDA b, c, i, j : IF i <= h /\ j <= w THEN DataOf(x)[b][c][i][j] ELSE v)

\* C19: a MaxPooling forward pass over an input of spatial extent (H, W) with
\* window (p_y, p_x) gives an output of extent (H // p_y, W // p_x), each
\* element the maximum of the input over its own p_y x p_x window; the rows
\* and columns beyond the largest multiple of the window do not influence it.
C19_ForwardIsWindowMax ==
    (last.op \in {"compile", "forward"}) =>
        LET x == last.arg
            p_y == pool.p_window[1]
            p_x == pool.p_window[2]
            y == pool.y.data[1]
            oh == ShapeOf(x)[3] \div p_y
            ow == ShapeOf(x)[4] \div p_x
        IN  /\ ShapeOf(y) = <<ShapeOf(x)[1], ShapeOf(x)[2], oh, ow>>
            /\ Len(DataOf(y)) = ShapeOf(x)[1]
            /\ \A b \in 1..ShapeOf(x)[1], c \in 1..ShapeOf(x)[2] :
                  /\ Len(DataOf(y)[b][c]) = oh
                  /\ \A i \in 1..oh :
                        /\ Len(DataOf(y)[b][c][i]) = ow
                        /\ \A j \in 1..ow :
                              LET win == WindowOf((i - 1) * p_y + 1, (j - 1) * p_x + 1, pool.p_window)
                              IN  /\ \A q \in win : DataOf(x)[b][c][q[1]][q[2]] <= DataOf(y)[b][c][i][j]
                                  /\ \E q \in win : DataOf(x)[b][c][q[1]][q[2]] = DataOf(y)[b][c][i][j]
            /\ PoolForwarded(pool, OutsideSetTo(x, oh * p_y, ow * p_x, MaxVal + 1)).y.data = Some(y)

\* a forward pass over an input with rows and columns left over, one of whose
\* left-over entries is above every output element
C19_Witness ==
    /\ last.op = "forward"
    /\ pool.p_window = <<2, 2>>
    /\ ShapeOf(last.arg)[3] = 3 /\ ShapeOf(last.arg)[4] = 3
    /\ \E b \in 1..ShapeOf(last.arg)[1], c \in 1..ShapeOf(last.arg)[2], j \in 1..3 :
          /\ DataOf(last.arg)[b][c][3][j] > DataOf(pool.y.data[1])[b][c][1][1]
          /\ \E q \in WindowOf(1, 1, pool.p_window) :
                DataOf(last.arg)[b][c][q[1]][q[2]] < DataOf(pool.y.data[1])[b][c][1][1]

\* whether x[b][c][i][j] equals the maximum of the window that holds (i, j)
IsWindowMax(x, b, c, i, j, p_window) ==
    \A q \in WindowOf(i, j, p_window) : DataOf(x)[b][c][q[1]][q[2]] <= DataOf(x)[b][c][i][j]

\* the shape of the input cropped to whole windows
CroppedShape(sh, p_window) ==
    <<sh[1], sh[2], (sh[3] \div p_window[1]) * p_window[1],
                    (sh[4] \div p_window[2]) * p_window[2]>>

\* C20: the selection map p_map has the shape of the cropped input and is 1
\* exactly at the positions whose value equals the maximum of their window,
\* every tied position included, and 0 elsewhere; backward gives each such
\* position the whole upstream gradient of its window and every other
\* position zero.
C20_SelectionMapAndGradient ==
    (last.op \in {"compile", "forward", "backward"}) =>
        LET x == pool.x.data[1]
            p_map == pool.p_map[1]
            csh == CroppedShape(ShapeOf(x), pool.p_window)
        IN  /\ ShapeOf(p_map) = csh
            /\ Len(DataOf(p_map)) = csh[1]
            /\ \A b \in 1..csh[1], c \in 1..csh[2] :
                  /\ Len(DataOf(p_map)[b][c]) = csh[3]
                  /\ \A i \in 1..csh[3] :
                        /\ Len(DataOf(p_map)[b][c][i]) = csh[4]
                        /\ \A j \in 1..csh[4] :
                              DataOf(p_map)[b][c][i][j] =
                                 IF IsWindowMax(x, b, c, i, j, pool.p_window) THEN 1 ELSE 0
            /\ (last.op = "backward" /\ ShapeOf(last.arg) = ShapeOf(pool.y.data[1])) =>
                  \A b \in 1..csh[1], c \in 1..csh[2], i \in 1..csh[3], j \in 1..csh[4] :
                      DataOf(pool.x.grad[1])[b][c][i][j] =
                         IF IsWindowMax(x, b, c, i, j, pool.p_window)
                         THEN DataOf(last.arg)[b][c][(i - 1) \div pool.p_window[1] + 1]
                                                 [(j - 1) \div pool.p_window[2] + 1]
                         ELSE 0

\* a backward pass over 2 x 2 windows, one of which has its maximum at two
\* positions and a nonzero upstream gradient
C20_Witness ==
    /\ last.op = "backward"
    /\ ShapeOf(last.arg) = ShapeOf(pool.y.data[1])
    /\ pool.p_window = <<2, 2>>
    /\ ShapeOf(pool.x.data[1])[3] >= 2 /\ ShapeOf(pool.x.data[1])[4] >= 2
    /\ \E b \in 1..ShapeOf(pool.x.data[1])[1], c \in 1..ShapeOf(pool.x.data[1])[2] :
          LET m == DataOf(pool.p_map[1])[b][c]
              g == DataOf(pool.x.grad[1])[b][c]
          IN  /\ m[1][1] + m[1][2] + m[2][1] + m[2][2] = 2
              /\ DataOf(last.arg)[b][c][1][1] # 0
              /\ \E q \in WindowOf(1, 1, pool.p_window) : g[q[1]][q[2]] = DataOf(last.arg)[b][c][1][1]
              /\ \E q \in WindowOf(1, 1, pool.p_window) :
                    g[q[1]][q[2]] = 0 /\ m[q[1]][q[2]] = 0

\* C21: for every input shape, MaxPooling backward gives an input gradient of
\* the shape of the original input (before the crop to whole windows), zero at
\* every position outside the cropped region.
C21_GradientHasInputShape ==
    (last.op = "backward") =>
        LET x == pool.x.data[1]
            g == pool.x.grad[1]
            csh == CroppedShape(ShapeOf(x), pool.p_window)
        IN  /\ ShapeOf(g) = ShapeOf(x)
            /\ \A b \in 1..ShapeOf(x)[1], c \in 1..ShapeOf(x)[2],
                  i \in 1..ShapeOf(x)[3], j \in 1..ShapeOf(x)[4] :
                  (i > csh[3] \/ j > csh[4]) => DataOf(g)[b][c][i][j] = 0

(***************************************************************************)
(* Softmax (walnut/nn/layers/activations.py).  The outputs are exact       *)
(* fractions; the upstream gradients are integers.                         *)
(***************************************************************************)
FracMul(a, b) == Frac(a.n * b.n, a.d * b.d)
FracSub(a, b) == Frac(a.n * b.d - b.n * a.d, a.d * b.d)
FracAdd(a, b) == Frac(a.n * b.d + b.n * a.d, a.d * b.d)
FracScale(a, k) == Frac(a.n * k, a.d)

RECURSIVE FracSum(_)
FracSum(s) == IF s = <<>> THEN Frac(0, 1) ELSE FracAdd(s[1], FracSum(Tail(s)))

\* np.eye(channels, channels) with every entry set
EyeFull(n) == Arr([j \in 1..n |-> Arr([k \in 1..n |-> 1])])

\* np.eye(channels, channels)
Eye(n) == Arr([j \in 1..n |-> Arr([k \in 1..n |-> IF j = k THEN 1 ELSE 0])])

\* a[1][j] * b[i][k]: the first example's row in place of each example's own
Einsum_ij_ik_FirstRow(a, b) ==
    Arr([i \in 1..Len(a) |-> Arr([j \in 1..Len(a[i]) |-> Arr([k \in 1..Len(b[i]) |->
        FracMul(a[1][j], b[i][k])])])])

\* np.einsum("ij,ik->ijk", a, b)
Einsum_ij_ik(a, b) ==
    Arr([i \in 1..Len(a) |-> Arr([j \in 1..Len(a[i]) |-> Arr([k \in 1..Len(b[i]) |->
        FracMul(a[i][j], b[i][k])])])])

\* np.einsum("ij,jk->ijk", a, e) for an integer matrix e
Einsum_ij_jk(a, e) ==
    Arr([i \in 1..Len(a) |-> Arr([j \in 1..Len(a[i]) |-> Arr([k \in 1..Len(e[j]) |->
        FracScale(a[i][j], e[j][k])])])])

\* np.einsum("ijk,ik->ij", m, dy) for an integer matrix dy
Einsum_ijk_ik(m, dy) ==
    Arr([i \in 1..Len(m) |-> Arr([j \in 1..Len(m[i]) |->
        FracSum([k \in 1..Len(m[i][j]) |-> FracScale(m[i][j][k], dy[i][k])])])])

\* x2 - x1, entry by entry
Sub3(a, b) ==
    Arr([i \in 1..Len(a) |-> Arr([j \in 1..Len(a[i]) |-> Arr([k \in 1..Len(a[i][j]) |->
        FracSub(a[i][j][k], b[i][j][k])])])])

\* Softmax.backward: x.grad for the cached output y and the upstream gradient dy
SoftmaxInputGrad(y, dy, channels) ==
    LET x1 == Einsum_ij_ik(y, y)
        x2 == Einsum_ij_jk(y, Eye(channels))
    IN  Einsum_ijk_ik(Sub3(x2, x1), dy)

\* the rows softmax can return: non-negative entries k / SoftDen summing to 1
ProbRows(channels) ==
    {Arr([j \in 1..channels |-> Frac(n[j], SoftDen)]) :
        n \in {f \in [1..channels -> 0..SoftDen] :
                  SumSeq([j \in 1..channels |-> f[j]]) = SoftDen}}

\* the outputs softmax can return for a batch of one or two examples
ProbMats(channels) ==
    {<<r>> : r \in ProbRows(channels)}
        \cup {<<r1, r2>> : r1 \in ProbRows(channels), r2 \in ProbRows(channels)}

\* Softmax()
SoftInit ==
    /\ soft = [x |-> [data |-> None, grad |-> None], y |-> [data |-> None, grad |-> None]]
    /\ t = Idle /\ seqc = Idle /\ parc = Idle /\ log = Idle /\ lin = Idle
    /\ conv = Idle /\ drop = Idle /\ pool = Idle /\ chain = Idle
    /\ last = [op |-> "init"]
    /\ err = ""
    /\ steps = 0

\* Softmax.__call__(x): Module.__call__ keeps x, then y.data = softmax(x).data,
\* one of the probability rows per example
SoftCall(x, y) ==
    /\ soft.x.data = None
    /\ soft' = [soft EXCEPT !.x.data = Some(x), !.y.data = Some(y)]
    /\ last' = [op |-> "call", arg |-> x]
    /\ err' = ""
    /\ UNCHANGED <<t, seqc, parc, log, lin, conv, drop, pool, chain, steps>>

\* Softmax.backward(y_grad): Module.backward keeps y_grad in y.grad
SoftBackward(y_grad) ==
    /\ soft.y.data # None
    /\ soft' = [soft EXCEPT
                  !.y.grad = Some(y_grad),
                  !.x.grad = Some(SoftmaxInputGrad(soft.y.data[1], y_grad,
                                                   NCols(soft.x.data[1])))]
    /\ last' = [op |-> "backward", arg |-> y_grad]
    /\ err' = ""
    /\ UNCHANGED <<t, seqc, parc, log, lin, conv, drop, pool, chain, steps>>

SoftNext ==
    \/ \E channels \in 1..MaxClass :
          \E y \in ProbMats(channels) : SoftCall(GenMat(channels, Len(y), channels), y)
    \/ \E s \in 1..MaxSeed :
          SoftBackward(GenMat(s, NRows(soft.y.data[1]), NCols(soft.y.data[1])))
    \/ SoftBackward(Ones(NRows(soft.y.data[1]), NCols(soft.y.data[1])))

SpecSoft == SoftInit /\ [][SoftNext]_vars

\* C22: for a softmax output row y, non-negative entries summing to 1, Softmax
\* backward on an all-ones upstream gradient gives an input-gradient row whose
\* entries sum to zero.
C22_OnesGradientSumsToZero ==
    (last.op = "backward" /\ last.arg = Ones(NRows(last.arg), NCols(last.arg))) =>
        \A i \in 1..NRows(soft.x.grad[1]) :
            /\ \A j \in 1..NCols(soft.y.data[1]) : soft.y.data[1][i][j].n >= 0
            /\ FracSum(soft.y.data[1][i]) = Frac(1, 1)
            /\ FracSum(soft.x.grad[1][i]) = Frac(0, 1)

\* a backward pass on all-ones over two examples of three classes whose
\* output rows differ and have an entry strictly between 0 and 1
C22_Witness ==
    /\ last.op = "backward"
    /\ last.arg = Ones(2, 3)
    /\ soft.y.data[1][1] # soft.y.data[1][2]
    /\ \E j \in 1..3 : soft.y.data[1][1][j].n > 0 /\ soft.y.data[1][1][j].d > 1
    /\ NRows(soft.x.grad[1]) = 2 /\ NCols(soft.x.grad[1]) = 3

\* C27: Softmax backward gives dx[i,j] = y[i,j] * (dy[i,j] - sum over k of
\* y[i,k] * dy[i,k]) for every example i and class j: the Jacobian
\* diag(y_i) - y_i y_i^T applied to the upstream row, rows never mixed.
C27_SoftmaxJacobian ==
    (last.op = "backward") =>
        LET y == soft.y.data[1]
            dy == last.arg
            dx == soft.x.grad[1]
        IN  /\ NRows(dx) = NRows(y)
            /\ \A i \in 1..NRows(y) :
                  /\ Len(dx[i]) = Len(y[i])
                  /\ \A j \in 1..Len(y[i]) :
                        dx[i][j] =
                           FracMul(y[i][j],
                                   FracSub(Frac(dy[i][j], 1),
                                           FracSum([k \in 1..Len(y[i]) |->
                                                       FracScale(y[i][k], dy[i][k])])))

\* a backward pass over two examples with different output rows, an upstream
\* gradient that is not constant along a row, and a nonzero input gradient
C27_Witness ==
    /\ last.op = "backward"
    /\ NRows(last.arg) = 2 /\ NCols(last.arg) >= 2
    /\ soft.y.data[1][1] # soft.y.data[1][2]
    /\ last.arg[1][1] # last.arg[1][2]
    /\ \E j \in 1..NCols(last.arg) : soft.x.grad[1][2][j].n # 0

\* C23: whatever the training flag was during the forward calls made so far,
\* the backward a node offers belongs to its latest forward call: after a
\* ParallelContainer call the callable backward is the closure that this call
\* installed, with the outputs this call's children returned, never the
\* closure of an earlier call.
C23_BackwardOfLatestForward ==
    (last.op = "call" /\ err = "" /\ parc.backward # None) =>
        /\ parc.backward[1].x = last.arg
        /\ Len(parc.backward[1].ys) = Len(log)
        /\ \A k \in 1..Len(log) : parc.backward[1].ys[k] = log[k].ret

\* C24: backward is single-shot: a backward call made when a backward has
\* already been performed against the latest forward call of a
\* SequentialContainer is rejected with an error and leaves the parameters and
\* the cached state as they were.
C24_BackwardIsSingleShot ==
    [][(last.op = "backward" /\ err = "" /\ last'.op = "backward") =>
          (err' # "" /\ seqc' = seqc)]_vars

(***************************************************************************)
(* The Tensor heap (compyute/tensors.py).  Objects have identity: a buffer *)
(* is [vals, device, dtype], a Tensor is [data, grad] with data the index  *)
(* of its buffer and grad None or the index of another Tensor.  The        *)
(* variables a and h are bound to Tensors (h is a second holder of the     *)
(* Tensor a starts with), r to the result of the last call.  Values are    *)
(* exact fractions.                                                        *)
(***************************************************************************)
Devices == {"cpu", "cuda"}
DTypes == {"int32", "float32"}

\* the value of an integer dtype nearest to a towards zero
Trunc(a) == IF a.n >= 0 THEN Frac(a.n \div a.d, 1) ELSE Frac(0 - ((0 - a.n) \div a.d), 1)

\* numpy's floor(a / k) for an integer k > 0
FracFloorDiv(a, k) == Frac(a.n \div (a.d * k), 1)

\* data.astype(dtype): integer dtypes drop the fractional part
AsType(vals, dtype) ==
    Arr([i \in 1..Len(vals) |-> IF dtype = "int32" THEN Trunc(vals[i]) ELSE vals[i]])

\* the heap with one more buffer / one more Tensor (its index is the new length)
AllocBuf(H, buf) == [H EXCEPT !.bufs = Append(@, buf)]
AllocTensor(H, data, grad) == [H EXCEPT !.tens = Append(@, [data |-> data, grad |-> grad])]

\* Tensor.device and Tensor.dtype: read off the data buffer
DeviceOf(H, i) == H.bufs[H.tens[i].data].device
DTypeOf(H, i) == H.bufs[H.tens[i].data].dtype

\* a comparison that never finds the target matched
NeverMatches(have, want) == FALSE

\* self.device == device, self.dtype == dtype
Matches(have, want) == have = want

\* data_to_device(data, device): the same values in a new buffer on the device
DataToDevice(H, b, device) == AllocBuf(H, [H.bufs[b] EXCEPT !.device = device])

\* Tensor.to_device(device) on Tensor i: [H, res]
RECURSIVE ToDevice(_, _, _)
ToDevice(H, i, device) ==
    IF Matches(DeviceOf(H, i), device) THEN [H |-> H, res |-> i]
    ELSE LET H1 == DataToDevice(H, H.tens[i].data, device)
             H2 == AllocTensor(H1, Len(H1.bufs), None)
             new_tensor == Len(H2.tens)
         IN  IF H.tens[i].grad # None
             THEN LET g == ToDevice(H2, H.tens[i].grad[1], device)
                  IN  [H |-> [g.H EXCEPT !.tens[new_tensor].grad = Some(g.res)],
                       res |-> new_tensor]
             ELSE [H |-> H2, res |-> new_tensor]

\* Tensor.ito_device(device) on Tensor i: the heap afterwards
RECURSIVE IToDevice(_, _, _)
IToDevice(H, i, device) ==
    IF Matches(DeviceOf(H, i), device) THEN H
    ELSE LET H1 == DataToDevice(H, H.tens[i].data, device)
             H2 == [H1 EXCEPT !.tens[i].data = Len(H1.bufs)]
         IN  IF H.tens[i].grad # None THEN IToDevice(H2, H.tens[i].grad[1], device)
             ELSE H2

\* Tensor.to_type(dtype) on Tensor i: [H, res]
ToType(H, i, dtype) ==
    IF Matches(DTypeOf(H, i), dtype) THEN [H |-> H, res |-> i]
    ELSE LET b == H.bufs[H.tens[i].data]
             H1 == AllocBuf(H, [b EXCEPT !.vals = AsType(b.vals, dtype), !.dtype = dtype])
             H2 == AllocTensor(H1, Len(H1.bufs), None)
         IN  [H |-> H2, res |-> Len(H2.tens)]

\* Tensor.copy() on Tensor i: [H, res]
RECURSIVE Copy(_, _)
Copy(H, i) ==
    LET H1 == AllocBuf(H, H.bufs[H.tens[i].data])
        H2 == AllocTensor(H1, Len(H1.bufs), None)
        new_tensor == Len(H2.tens)
    IN  IF H.tens[i].grad # None
        THEN LET g == Copy(H2, H.tens[i].grad[1])
             IN  [H |-> [g.H EXCEPT !.tens[new_tensor].grad = Some(g.res)],
                  res |-> new_tensor]
        ELSE [H |-> H2, res |-> new_tensor]

RECURSIVE FracPow(_, _)
FracPow(a, k) == IF k = 0 THEN Frac(1, 1) ELSE FracMul(a, FracPow(a, k - 1))

\* data <op> k for one entry and an integer k > 0, as numpy computes it
BinOp(op, a, k) ==
    CASE op = "+" -> FracAdd(a, Frac(k, 1))
      [] op = "-" -> FracSub(a, Frac(k, 1))
      [] op = "*" -> FracScale(a, k)
      [] op = "/" -> Frac(a.n, a.d * k)
      [] op = "//" -> FracFloorDiv(a, k)
      [] op = "**" -> FracPow(a, k)
      [] op = "%" -> FracSub(a, FracScale(FracFloorDiv(a, k), k))

\* the dtype of data <op> k: true division of integers gives floats
ResultDType(op, dtype) == IF op = "/" /\ dtype = "int32" THEN "float64" ELSE dtype

AugOps == {"+", "-", "*", "/", "//", "**", "%"}

\* whether the class defines the method "x <op>= k" looks up: __iadd__, __isub__,
\* __imul__, __ifloordiv__, __ipow__, __imod__ are defined; for "/=" Python 3
\* looks up __itruediv__, and the class defines __idiv__
HasInplaceMethod(op) == op # "/"

\* the Tensor a variable is bound to, and the heap with the variable rebound
Ref(H, v) == IF v = "a" THEN H.a ELSE H.r[1]
Bind(H, v, i) == IF v = "a" THEN [H EXCEPT !.a = i] ELSE [H EXCEPT !.r = Some(i)]

\* "v <op>= k": the in-place method changes the buffer and returns self; without
\* one Python evaluates v = v <op> k, which binds v to a new Tensor
AugAssign(H, v, op, k) ==
    LET i == Ref(H, v)
        b == H.tens[i].data
        vals == Arr([j \in 1..Len(H.bufs[b].vals) |-> BinOp(op, H.bufs[b].vals[j], k)])
    IN  IF HasInplaceMethod(op)
        THEN [H EXCEPT !.bufs[b].vals = vals]
        ELSE LET H1 == AllocBuf(H, [H.bufs[b] EXCEPT
                                      !.vals = vals,
                                      !.dtype = ResultDType(op, H.bufs[b].dtype)])
                 H2 == AllocTensor(H1, Len(H1.bufs), None)
             IN  Bind(H2, v, Len(H2.tens))

\* a Tensor a with h a second reference to it, with or without a gradient
TenInit ==
    /\ \E device \in Devices, dtype \in DTypes, with_grad \in BOOLEAN :
          LET vals == Arr([j \in 1..MaxLen |->
                              IF dtype = "int32" THEN Frac(Gen(1, j), 1)
                              ELSE Frac(2 * Gen(1, j) + 1, 2)])
              g == Arr([j \in 1..MaxLen |-> Frac(2 * Gen(2, j) + 1, 2)])
          IN  t = [bufs |-> IF with_grad
                            THEN <<[vals |-> vals, device |-> device, dtype |-> dtype],
                                   [vals |-> g, device |-> device, dtype |-> "float32"]>>
                            ELSE <<[vals |-> vals, device |-> device, dtype |-> dtype]>>,
                   tens |-> IF with_grad
                            THEN <<[data |-> 1, grad |-> Some(2)], [data |-> 2, grad |-> None]>>
                            ELSE <<[data |-> 1, grad |-> None]>>,
                   a |-> 1, h |-> 1, r |-> None]
    /\ last = [op |-> "init"]
    /\ err = ""
    /\ steps = 0
    /\ seqc = Idle /\ parc = Idle /\ log = Idle /\ lin = Idle /\ conv = Idle
    /\ drop = Idle /\ pool = Idle /\ soft = Idle /\ chain = Idle

TenVars == {v \in {"a", "r"} : v = "a" \/ t.r # None}

TenFrame ==
    /\ steps < MaxOps
    /\ steps' = steps + 1
    /\ err' = ""
    /\ UNCHANGED <<seqc, parc, log, lin, conv, drop, pool, soft, chain>>

\* r = v.to_device(device)
TenToDevice(v, device) ==
    /\ TenFrame
    /\ LET c == ToDevice(t, Ref(t, v), device)
       IN  t' = [c.H EXCEPT !.r = Some(c.res)]
    /\ last' = [op |-> "to_device", src |-> Ref(t, v), target |-> device]

\* v.ito_device(device)
TenIToDevice(v, device) ==
    /\ TenFrame
    /\ t' = IToDevice(t, Ref(t, v), device)
    /\ last' = [op |-> "ito_device", src |-> Ref(t, v), target |-> device]

\* r = v.to_type(dtype)
TenToType(v, dtype) ==
    /\ TenFrame
    /\ LET c == ToType(t, Ref(t, v), dtype)
       IN  t' = [c.H EXCEPT !.r = Some(c.res)]
    /\ last' = [op |-> "to_type", src |-> Ref(t, v), target |-> dtype]

\* r = v.copy()
TenCopy(v) ==
    /\ TenFrame
    /\ LET c == Copy(t, Ref(t, v))
       IN  t' = [c.H EXCEPT !.r = Some(c.res)]
    /\ last' = [op |-> "copy", src |-> Ref(t, v), target |-> ""]

\* v <op>= k
TenAugAssign(v, op, k) ==
    /\ TenFrame
    /\ \A j \in 1..MaxLen :
          LET e == t.bufs[t.tens[Ref(t, v)].data].vals[j]
          IN  Abs(e.n) <= MaxMag /\ e.d <= MaxMag
    /\ t' = AugAssign(t, v, op, k)
    /\ last' = [op |-> "aug", src |-> Ref(t, v), target |-> op, v |-> v, k |-> k]

TenNext ==
    \/ \E v \in TenVars, device \in Devices : TenToDevice(v, device)
    \/ \E v \in TenVars, device \in Devices : TenIToDevice(v, device)
    \/ \E v \in TenVars, dtype \in DTypes : TenToType(v, dtype)
    \/ \E v \in TenVars : TenCopy(v)
    \/ \E v \in TenVars, op \in AugOps : TenAugAssign(v, op, MaxVal)

SpecTen == TenInit /\ [][TenNext]_vars

C29_AugmentedAssignmentInPlace ==
    [][(last'.op = "aug") =>
          LET i == last'.src
              b == t.tens[i].data
          IN  /\ Ref(t', last'.v) = i
              /\ t'.tens[i] = t.tens[i]
              /\ Len(t'.bufs) = Len(t.bufs)
              /\ \A j \in 1..Len(t.bufs[b].vals) :
                    t'.bufs[b].vals[j] = BinOp(last'.target, t.bufs[b].vals[j], last'.k)
              /\ (t.h = i) => (t'.h = Ref(t', last'.v))
      ]_vars

\* C30: conversions and copies keep the gradient: the Tensor that to_device,
\* to_type or copy returns for a Tensor with a gradient carries a gradient
\* with the same values, of the shape of its data, and none for a Tensor
\* without gradient; the data and grad buffers of a copy are not those of the
\* original.
C30_ConversionsKeepGradient ==
    (last.op \in {"to_device", "to_type", "copy"}) =>
        LET src == t.tens[last.src]
            res == t.tens[t.r[1]]
        IN  /\ (src.grad = None) <=> (res.grad = None)
            /\ (src.grad # None) =>
                  /\ t.bufs[t.tens[res.grad[1]].data].vals = t.bufs[t.tens[src.grad[1]].data].vals
                  /\ Len(t.bufs[t.tens[res.grad[1]].data].vals) = Len(t.bufs[res.data].vals)
            /\ (last.op = "copy") =>
                  /\ t.r[1] # last.src
                  /\ res.data # src.data
                  /\ (src.grad # None) =>
                        t.tens[res.grad[1]].data # t.tens[src.grad[1]].data

(***************************************************************************)
(* Iterating a Tensor (compyute/tensors.py).  The position of an iteration *)
(* is the attribute _iterator of the Tensor itself: __iter__ resets it and *)
(* returns the Tensor, __next__ advances it.  A loop "for e in x" calls    *)
(* iter(x) once and next on the returned object until StopIteration.  t    *)
(* holds the Tensor's first-axis elements, its _iterator and, per loop,    *)
(* the position of the loop and the <<key, element>> pairs it was given.   *)
(***************************************************************************)
Loops == {"outer", "inner"}

\* self[key]: the element at a 0-based key
GetItem(data, key) == data[key + 1]

\* __iter__: self._iterator = 0; return self
Iter(x) == [x EXCEPT !.iterator = 0]

\* __next__: the element at the old _iterator and the Tensor with _iterator
\* advanced, or StopIteration (no element, Tensor unchanged)
NextItem(x) ==
    IF x.iterator < Len(x.data)
    THEN [x |-> [x EXCEPT !.iterator = x.iterator + 1],
          item |-> Some(<<x.iterator, GetItem(x.data, x.iterator)>>)]
    ELSE [x |-> x, item |-> None]

IterInit ==
    /\ \E n \in 1..(MaxLen + 1), s \in 1..MaxSeed :
          t = [data |-> GenVec(s, n), iterator |-> 0,
               loops |-> [l \in Loops |-> [pc |-> "idle", seen |-> <<>>]]]
    /\ last = [op |-> "init"]
    /\ err = ""
    /\ steps = 0
    /\ seqc = Idle /\ parc = Idle /\ log = <<>> /\ lin = Idle /\ conv = Idle
    /\ drop = Idle /\ pool = Idle /\ soft = Idle /\ chain = Idle

IterFrame ==
    /\ steps' = steps + 1
    /\ UNCHANGED <<seqc, parc, log, lin, conv, drop, pool, soft, chain>>

\* the loop l starts: iter(x)
LoopIter(l) ==
    /\ t.loops[l].pc = "idle"
    /\ IterFrame
    /\ t' = [Iter(t) EXCEPT !.loops[l].pc = "running"]
    /\ err' = ""
    /\ last' = [op |-> "iter", loop |-> l]

\* the loop l asks for its next element: next(x); StopIteration ends the loop
LoopNext(l) ==
    /\ t.loops[l].pc = "running"
    /\ IterFrame
    /\ LET c == NextItem(t)
       IN  IF c.item # None
           THEN /\ t' = [c.x EXCEPT !.loops[l].seen = Append(@, c.item[1])]
                /\ err' = ""
           ELSE /\ t' = [c.x EXCEPT !.loops[l].pc = "done"]
                /\ err' = "StopIteration"
    /\ last' = [op |-> "next", loop |-> l]

IterNext ==
    \/ \E l \in Loops : LoopIter(l)
    \/ \E l \in Loops : LoopNext(l)

SpecIter == IterInit /\ [][IterNext]_vars

\* the pairs <<0, x[0]>>, ..., <<n - 1, x[n - 1]>>
AllItems(data) == Arr([i \in 1..Len(data) |-> <<i - 1, GetItem(data, i - 1)>>])

\* C28: a loop over a Tensor is given the first-axis elements 0 .. len - 1
\* exactly once each, in order, and then stops, whatever other loop over the
\* same Tensor is in progress: what a loop has been given is always a prefix
\* of all elements, and the whole of them when the loop has stopped.
C28_IterationYieldsEachElementOnce ==
    \A l \in Loops :
        LET seen == t.loops[l].seen  all == AllItems(t.data)
        IN  /\ Len(seen) <= Len(all)
            /\ seen = SubSeq(all, 1, Len(seen))
            /\ (t.loops[l].pc = "done") => seen = all

(***************************************************************************)
(* A compiled chain of layers (walnut/nn/layers.py).  chain.layers is the  *)
(* list of layers in index order; the predecessor of the layer at position *)
(* i is the one at i - 1 (None for the first), its successor the one at    *)
(* i + 1 (None for the last), as compile stores them.  A layer is          *)
(* [kind, n, x, y, w, b]: x and y are [data, grad], each optional; w and b *)
(* are the optional parameters of a Linear layer; n is the input width of  *)
(* an Input layer and out_channels of a Linear layer.  chain.fwd counts    *)
(* the layers of the forward pass in index order that is in progress,      *)
(* chain.bwd those of the backward pass in reverse order that follows a    *)
(* complete forward pass.                                                  *)
(***************************************************************************)
NoTensor == [data |-> None, grad |-> None]

\* Layer.__init__ and the constructors of Input, Linear and Output
NewLayer(kind, n) ==
    [kind |-> kind, n |-> n, x |-> NoTensor, y |-> NoTensor, w |-> None, b |-> None]

\* the data a layer reads from its predecessor: prev_layer.x.data
PrevInput(ls, i) == ls[i - 1].x.data

\* the data a layer reads from its predecessor: prev_layer.y.data
PrevData(ls, i) == ls[i - 1].y.data

\* the gradient a layer reads from its successor: succ_layer.x.grad
SuccGrad(ls, i) == ls[i + 1].x.grad

\* Layer.forward: x.data is taken from the predecessor, if there is one
BaseForward(ls, i) ==
    IF i > 1 THEN [ls EXCEPT ![i].x.data = PrevData(ls, i)] ELSE ls

\* Layer.backward: y.grad is taken from the successor, if there is one
BaseBackward(ls, i) ==
    IF i < Len(ls) THEN [ls EXCEPT ![i].y.grad = SuccGrad(ls, i)] ELSE ls

\* forward of Input, Linear and Output, after Layer.forward
LayerForward(ls, i) ==
    LET b == BaseForward(ls, i)
        l == b[i]
    IN  IF l.kind = "Linear"
        THEN [b EXCEPT ![i].y.data =
                  Some(LinearOutput(l.x.data[1], l.w[1].data, l.b[1].data, TRUE))]
        ELSE [b EXCEPT ![i].y.data = l.x.data]

\* backward of Input (Layer.backward only), Linear and Output, after
\* Layer.backward: the layers afterwards and the exception raised, if any.
\* Linear: None @ w.T raises TypeError; x.T @ y.grad raises ValueError when
\* the batch sizes differ, x.grad being written by then.
LayerBackward(ls, i) ==
    LET b == BaseBackward(ls, i)
        l == b[i]
    IN  CASE l.kind = "Input" -> [ls |-> b, err |-> ""]
          [] l.kind = "Output" -> [ls |-> [b EXCEPT ![i].x.grad = l.y.grad], err |-> ""]
          [] l.kind = "Linear" ->
                IF l.y.grad = None
                THEN [ls |-> b, err |-> "TypeError"]
                ELSE LET dy == l.y.grad[1]
                         x == l.x.data[1]
                         dx == LinearInputGrad(dy, l.w[1].data)
                     IN  IF NRows(x) # NRows(dy)
                         THEN [ls |-> [b EXCEPT ![i].x.grad = Some(dx)],
                               err |-> "ValueError"]
                         ELSE [ls |-> [b EXCEPT
                                  ![i].x.grad = Some(dx),
                                  ![i].w = Some([@[1] EXCEPT
                                               !.grad = Some(LinearWeightGrad(x, dy))]),
                                  ![i].b = Some([@[1] EXCEPT
                                               !.grad = Some(LinearBiasGrad(dy))])],
                               err |-> ""]

\* compile of the layer at position i: Input creates its x of ones with a
\* batch axis, Linear its w of shape (c_in, c_out) and its b of zeros; every
\* compile ends with a forward
LayerCompile(ls, i) ==
    LET l == ls[i]
        c == CASE l.kind = "Input" ->
                    [ls EXCEPT ![i].x = [data |-> Some(Ones(1, l.n)), grad |-> None]]
               [] l.kind = "Linear" ->
                    LET c_in == NCols(PrevData(ls, i)[1])
                    IN  [ls EXCEPT
                           ![i].w = Some([data |-> GenMat(l.n, c_in, l.n), grad |-> None]),
                           ![i].b = Some([data |-> ZerosVec(l.n), grad |-> None])]
               [] OTHER -> ls
    IN  LayerForward(c, i)

\* the layers compiled in index order, from position i on
RECURSIVE CompileFrom(_, _)
CompileFrom(ls, i) ==
    IF i > Len(ls) THEN ls ELSE CompileFrom(LayerCompile(ls, i), i + 1)

\* the chains: an Input layer, up to two Linear layers, an Output layer
Chains ==
    {<<NewLayer("Input", InDim), NewLayer("Output", 0)>>}
    \cup {<<NewLayer("Input", InDim), NewLayer("Linear", c1), NewLayer("Output", 0)>> :
             c1 \in {1, MaxWidth}}
    \cup {<<NewLayer("Input", InDim), NewLayer("Linear", c1), NewLayer("Linear", MaxWidth),
            NewLayer("Output", 0)>> : c1 \in {1, MaxWidth}}

\* batches and gradients of a shape
HandIns(n, m) == {GenMat(s, n, m) : s \in {1, MaxSeed}}

\* the chain after the model compiled its layers in index order
ChainInit ==
    /\ \E ls \in Chains : chain = [layers |-> CompileFrom(ls, 1), fwd |-> Len(ls), bwd |-> 0]
    /\ last = [op |-> "compile"]
    /\ err = ""
    /\ steps = 0
    /\ log = <<>>
    /\ t = Idle /\ seqc = Idle /\ parc = Idle /\ lin = Idle /\ conv = Idle
    /\ drop = Idle /\ pool = Idle /\ soft = Idle

ChainFrame == UNCHANGED <<t, seqc, parc, log, lin, conv, drop, pool, soft>>

\* at most MaxOps batches and gradients are handed in
ChainHandIn ==
    /\ steps < MaxOps
    /\ steps' = steps + 1
    /\ ChainFrame

\* the model hands a batch to its first layer
ChainSetInput(xin) ==
    /\ chain' = [chain EXCEPT !.layers[1].x.data = Some(xin)]
    /\ last' = [op |-> "set_input", i |-> 1]
    /\ err' = ""
    /\ ChainHandIn

\* the model hands the gradient of the loss to its last layer
ChainSetGrad(dy) ==
    /\ chain' = [chain EXCEPT !.layers[Len(chain.layers)].y.grad = Some(dy)]
    /\ last' = [op |-> "set_grad", i |-> Len(chain.layers)]
    /\ err' = ""
    /\ ChainHandIn

\* layers[i].forward(): the forward pass goes on or starts again
ChainForward(i) ==
    /\ i = chain.fwd + 1 \/ i = 1
    /\ chain' = [layers |-> LayerForward(chain.layers, i), fwd |-> i, bwd |-> 0]
    /\ last' = [op |-> "forward", i |-> i]
    /\ err' = ""
    /\ steps' = steps
    /\ ChainFrame

\* layers[i].backward(), after a complete forward pass: the backward pass
\* goes on or starts again; an exception ends it
ChainBackward(i) ==
    /\ chain.fwd = Len(chain.layers)
    /\ i = Len(chain.layers) - chain.bwd \/ i = Len(chain.layers)
    /\ LET c == LayerBackward(chain.layers, i)
           n == Len(chain.layers)
       IN  /\ chain' = [layers |-> c.ls,
                        fwd |-> chain.fwd,
                        bwd |-> IF c.err # "" THEN 0 ELSE n - i + 1]
           /\ err' = c.err
    /\ last' = [op |-> "backward", i |-> i]
    /\ steps' = steps
    /\ ChainFrame

ChainNext ==
    \/ \E n \in {1, MaxBatch} :
          \E xin \in HandIns(n, NCols(chain.layers[1].x.data[1])) : ChainSetInput(xin)
    \/ LET y == chain.layers[Len(chain.layers)].y.data[1]
       IN  \E dy \in HandIns(NRows(y), NCols(y)) : ChainSetGrad(dy)
    \/ \E i \in 1..Len(chain.layers) : ChainForward(i)
    \/ \E i \in 1..Len(chain.layers) : ChainBackward(i)

SpecChain == ChainInit /\ [][ChainNext]_vars

\* C26: after forward ran on the layers in index order, each layer's x.data
\* is its predecessor's y.data; after backward then ran in reverse index
\* order, each layer's y.grad is its successor's x.grad; the forward of the
\* first layer leaves its x.data as it is, and the backward of the last layer
\* its y.grad.
C26_DataAndGradientsAlongTheChain ==
    /\ [](LET ls == chain.layers  n == Len(chain.layers)
          IN  /\ (chain.fwd = n) =>
                     \A i \in 2..n : ls[i].x.data = ls[i - 1].y.data
              /\ (chain.fwd = n /\ chain.bwd = n) =>
                     \A i \in 1..(n - 1) : ls[i].y.grad = ls[i + 1].x.grad)
    /\ [][/\ (last'.op = "forward" /\ last'.i = 1) =>
                 chain'.layers[1].x.data = chain.layers[1].x.data
          /\ (last'.op = "backward" /\ last'.i = Len(chain.layers)) =>
                 chain'.layers[Len(chain.layers)].y.grad
                     = chain.layers[Len(chain.layers)].y.grad]_vars

\* a complete forward and backward pass through Input, Linear, Linear, Output
\* on a batch handed in, with a gradient handed in
C26_Witness ==
    LET ls == chain.layers  n == Len(chain.layers)
    IN  /\ n = 4
        /\ chain.fwd = n /\ chain.bwd = n
        /\ ls[1].x.data # Some(Ones(1, ls[1].n))
        /\ ls[n].y.grad # None
        /\ ls[1].y.grad # None
        /\ ls[3].y.data # ls[3].x.data
        /\ ls[2].y.grad # ls[2].x.grad

====
